---- MODULE Spec2Model ----
(***************************************************************************)
(* Model of go-apiTemplate: the JWT authentication core (internal/auth:    *)
(* NewAuthenticator, GenerateJWTToken, VerifyJWTToken, ExtractBearerToken,  *)
(* ExtractBasicAuth, JWTAuthMiddleware, the context accessors), the        *)
(* in-memory repository, the service over it and the /examples and /me     *)
(* handlers, OAuth2AuthMiddleware, and the Recover and Metrics middleware  *)
(* with the collectors of Metrics.InstrumentHandler.                       *)
(*                                                                         *)
(* Time is counted in ticks, TicksPerSecond ticks to the second, so that   *)
(* the truncation of NumericDate values to whole seconds is visible.       *)
(* A string is a sequence of atoms: a space, a space-free word, base64     *)
(* text, or a compact JWT.  A signature is the symbolic term               *)
(* Sign(family, key, alg, claims); it verifies only against the same key,  *)
(* header and payload.  Examples are objects on a heap; the repository's   *)
(* map holds their addresses.                                              *)
(***************************************************************************)
EXTENDS Integers, Sequences, FiniteSets, TLC

VARIABLES auth, now, tok, last, authConfig, reqs, heap, examples, stored, metrics

vars == <<auth, now, tok, last, authConfig, reqs, heap, examples, stored, metrics>>

\* the state outside internal/auth's Authenticator, clock and tokens
restVars == <<authConfig, reqs, heap, examples, stored, metrics>>

(***************************************************************************)
(* Bounds of the model                                                     *)
(***************************************************************************)
TicksPerSecond == 2

MaxTime == 3

(***************************************************************************)
(* Program constants                                                       *)
(***************************************************************************)
StatusUnauthorized == 401

StatusForbidden == 403

ErrInvalidToken == "invalid token"

ErrExpiredToken == "token has expired"

ErrMissingToken == "missing token"

NoError == "nil"

Panic == "panic"

NilKey == "nil"

(***************************************************************************)
(* Go values: slices (nil or not) and JSON fields (present or omitted)     *)
(***************************************************************************)
NilSlice == [isNil |-> TRUE, elems |-> <<>>]

GoSlice(s) == [isNil |-> FALSE, elems |-> s]

JAbsentStr == [present |-> FALSE, val |-> ""]

JAbsentArr == [present |-> FALSE, elems |-> <<>>]

\* encoding/json with `omitempty`: the empty string is left out
MarshalStr(s) == IF s = "" THEN JAbsentStr ELSE [present |-> TRUE, val |-> s]

\* encoding/json with `omitempty`: a nil or zero-length slice is left out
MarshalSlice(sl) ==
    IF Len(sl.elems) = 0 THEN JAbsentArr
    ELSE [present |-> TRUE, elems |-> sl.elems]

\* a missing field leaves the Go zero value
UnmarshalStr(j) == IF j.present THEN j.val ELSE ""

UnmarshalSlice(j) == IF j.present THEN GoSlice(j.elems) ELSE NilSlice

\* jwt.NewNumericDate: truncation to whole seconds
NewNumericDate(t) == t - (t % TicksPerSecond)

\* Claims -> JSON payload, by the struct tags
MarshalClaims(c) ==
    [exp     |-> c.ExpiresAt,
     iat     |-> c.IssuedAt,
     nbf     |-> c.NotBefore,
     sub     |-> MarshalStr(c.Subject),
     user_id |-> MarshalStr(c.UserID),
     roles   |-> MarshalSlice(c.Roles),
     scopes  |-> MarshalSlice(c.Scopes)]

\* JSON payload -> Claims
UnmarshalClaims(j) ==
    [ExpiresAt |-> j.exp,
     IssuedAt  |-> j.iat,
     NotBefore |-> j.nbf,
     Subject   |-> UnmarshalStr(j.sub),
     UserID    |-> UnmarshalStr(j.user_id),
     Roles     |-> UnmarshalSlice(j.roles),
     Scopes    |-> UnmarshalSlice(j.scopes)]

(***************************************************************************)
(* Strings as sequences of atoms                                           *)
(***************************************************************************)
SP == [kind |-> "sp"]

Word(w) == [kind |-> "word", text |-> w]

Str(w) == <<Word(w)>>

\* the compact serialisation header.claims.signature, one space-free atom
JWTAtom(alg, payload, sig) ==
    [kind |-> "jwt", alg |-> alg, claims |-> payload, sig |-> sig]

(***************************************************************************)
(* Signing methods and symbolic signatures                                 *)
(***************************************************************************)
HMACMethods == {"HS256", "HS384", "HS512"}

RSAMethods == {"RS256", "RS384", "RS512"}

Sign(family, key, alg, payload) ==
    [family |-> family, key |-> key, alg |-> alg, claims |-> payload]

(***************************************************************************)
(* NewAuthenticator                                                        *)
(***************************************************************************)
\* variant: an unrecognised name is kept as the method
SigningMethodOf_Strict(name) == name

SigningMethodOf(name) ==
    IF name \in HMACMethods \cup RSAMethods THEN name ELSE "HS256"

NewAuthenticator(config) ==
    [jwtSigningMethod |-> SigningMethodOf(config.JWTSigningMethod),
     jwtSecret        |-> config.JWTSecret,
     jwtPrivateKey    |-> config.JWTPrivateKey,
     jwtPublicKey     |-> config.JWTPublicKey,
     jwtExpiration    |-> config.JWTExpirationTime]

(***************************************************************************)
(* GenerateJWTToken: the set of results the call can have at time t        *)
(***************************************************************************)
\* variant: the registered subject is left unset
IssuedClaims_NoSubject(a, userID, roles, scopes, t) ==
    [ExpiresAt |-> NewNumericDate(t + a.jwtExpiration),
     IssuedAt  |-> NewNumericDate(t),
     NotBefore |-> NewNumericDate(t),
     Subject   |-> "",
     UserID    |-> userID,
     Roles     |-> roles,
     Scopes    |-> scopes]

IssuedClaims(a, userID, roles, scopes, t) ==
    [ExpiresAt |-> NewNumericDate(t + a.jwtExpiration),
     IssuedAt  |-> NewNumericDate(t),
     NotBefore |-> NewNumericDate(t),
     Subject   |-> userID,
     UserID    |-> userID,
     Roles     |-> roles,
     Scopes    |-> scopes]

GenerateResults(a, userID, roles, scopes, t) ==
    LET payload == MarshalClaims(IssuedClaims(a, userID, roles, scopes, t))
        m       == a.jwtSigningMethod
    IN  IF m \in HMACMethods
        THEN {[err |-> NoError,
               token |-> <<JWTAtom(m, payload, Sign("HMAC", a.jwtSecret, m, payload))>>]}
        ELSE IF m \in RSAMethods
        THEN IF a.jwtPrivateKey = NilKey
             \* signing with a nil *rsa.PrivateKey: no token comes back
             THEN {[err |-> Panic, token |-> <<>>],
                   [err |-> "failed to sign token", token |-> <<>>]}
             ELSE {[err |-> NoError,
                    token |-> <<JWTAtom(m, payload,
                                        Sign("RSA", a.jwtPrivateKey, m, payload))>>]}
        ELSE {[err |-> "unsupported signing method", token |-> <<>>]}

(***************************************************************************)
(* VerifyJWTToken: the set of results the call can have at time t          *)
(***************************************************************************)
NoClaims == [nil |-> TRUE]

\* jwt.ParseWithClaims, structural part: three segments that decode
WellFormedToken(s) == Len(s) = 1 /\ s[1].kind = "jwt"

\* variant: a token is still valid at the instant it expires
ClaimsErrors_Inclusive(payload, t) ==
    (IF t <= payload.exp THEN {} ELSE {"token is expired"})
    \cup (IF t >= payload.nbf THEN {} ELSE {"token is not valid yet"})

\* the registered-claims validation: exp, then nbf (iat is not verified)
ClaimsErrors(payload, t) ==
    (IF t < payload.exp THEN {} ELSE {"token is expired"})
    \cup (IF t >= payload.nbf THEN {} ELSE {"token is not valid yet"})

\* what VerifyJWTToken returns once the signature has been accepted
ValidatedResult(payload, t) ==
    IF ClaimsErrors(payload, t) = {}
    THEN [err |-> NoError, claims |-> UnmarshalClaims(payload)]
    ELSE IF "token is expired" \in ClaimsErrors(payload, t)
    THEN [err |-> ErrExpiredToken, claims |-> NoClaims]
    ELSE [err |-> ErrInvalidToken, claims |-> NoClaims]

InvalidResult == [err |-> ErrInvalidToken, claims |-> NoClaims]

PanicResult == [err |-> Panic, claims |-> NoClaims]

\* variant: a token is good for one use; the Authenticator remembers, in
\* what the requests in flight hold, the tokens it has accepted
VerifyResults_OneTime(a, tokenString, t) ==
    IF \E k \in DOMAIN reqs : /\ reqs[k].pc \in {"verified", "done"}
                              /\ reqs[k].token = tokenString
                              /\ reqs[k].verify.err = NoError
    THEN {InvalidResult}
    ELSE
    IF ~WellFormedToken(tokenString) THEN {InvalidResult}
    ELSE
    LET j == tokenString[1]
    IN  IF j.alg \in HMACMethods
        \* key function: HMAC family -> the shared secret
        THEN IF j.sig = Sign("HMAC", a.jwtSecret, j.alg, j.claims)
             THEN {ValidatedResult(j.claims, t)}
             ELSE {InvalidResult}
        ELSE IF j.alg \in RSAMethods
        \* key function: RSA family -> the public key
        THEN IF a.jwtPublicKey = NilKey
             \* a nil *rsa.PublicKey reaches the RSA verification
             THEN {PanicResult, InvalidResult}
             ELSE IF j.sig = Sign("RSA", a.jwtPublicKey, j.alg, j.claims)
             THEN {ValidatedResult(j.claims, t)}
             ELSE {InvalidResult}
        \* any other family: "unexpected signing method"
        ELSE {InvalidResult}

\* variant: the key is chosen from the configured signing method
VerifyResults_ConfiguredMethod(a, tokenString, t) ==
    IF ~WellFormedToken(tokenString) THEN {InvalidResult}
    ELSE
    LET j == tokenString[1]
    IN  IF j.alg \notin HMACMethods \cup RSAMethods THEN {InvalidResult}
        ELSE IF a.jwtSigningMethod \in HMACMethods
        THEN IF j.sig = Sign("HMAC", a.jwtSecret, j.alg, j.claims)
             THEN {ValidatedResult(j.claims, t)}
             ELSE {InvalidResult}
        ELSE IF a.jwtPublicKey = NilKey
             THEN {PanicResult, InvalidResult}
             ELSE IF j.sig = Sign("RSA", a.jwtPublicKey, j.alg, j.claims)
             THEN {ValidatedResult(j.claims, t)}
             ELSE {InvalidResult}

VerifyResults(a, tokenString, t) ==
    IF ~WellFormedToken(tokenString) THEN {InvalidResult}
    ELSE
    LET j == tokenString[1]
    IN  IF j.alg \in HMACMethods
        \* key function: HMAC family -> the shared secret
        THEN IF j.sig = Sign("HMAC", a.jwtSecret, j.alg, j.claims)
             THEN {ValidatedResult(j.claims, t)}
             ELSE {InvalidResult}
        ELSE IF j.alg \in RSAMethods
        \* key function: RSA family -> the public key
        THEN IF a.jwtPublicKey = NilKey
             \* a nil *rsa.PublicKey reaches the RSA verification
             THEN {PanicResult, InvalidResult}
             ELSE IF j.sig = Sign("RSA", a.jwtPublicKey, j.alg, j.claims)
             THEN {ValidatedResult(j.claims, t)}
             ELSE {InvalidResult}
        \* any other family: "unexpected signing method"
        ELSE {InvalidResult}

(***************************************************************************)
(* ExtractBearerToken                                                      *)
(***************************************************************************)
HasSpace(s) == \E i \in 1..Len(s) : s[i] = SP

FirstSpace(s) == CHOOSE i \in 1..Len(s) : s[i] = SP /\ \A k \in 1..(i-1) : s[k] # SP

RECURSIVE Split(_)
\* strings.Split(s, " ")
Split(s) ==
    IF ~HasSpace(s) THEN <<s>>
    ELSE <<SubSeq(s, 1, FirstSpace(s) - 1)>>
         \o Split(SubSeq(s, FirstSpace(s) + 1, Len(s)))

\* variant: the scheme is matched without regard to case
ExtractBearerToken_AnyCase(authHeader) ==
    IF authHeader = <<>> THEN [err |-> ErrMissingToken, token |-> <<>>]
    ELSE LET parts == Split(authHeader)
         IN  IF Len(parts) # 2 \/ parts[1] \notin {Str("Bearer"), Str("bearer")}
             THEN [err |-> ErrInvalidToken, token |-> <<>>]
             ELSE [err |-> NoError, token |-> parts[2]]

\* variant: extra parts after the credential are ignored
ExtractBearerToken_Lenient(authHeader) ==
    IF authHeader = <<>> THEN [err |-> ErrMissingToken, token |-> <<>>]
    ELSE LET parts == Split(authHeader)
         IN  IF Len(parts) < 2 \/ parts[1] # Str("Bearer")
             THEN [err |-> ErrInvalidToken, token |-> <<>>]
             ELSE [err |-> NoError, token |-> parts[2]]

ExtractBearerToken(authHeader) ==
    IF authHeader = <<>> THEN [err |-> ErrMissingToken, token |-> <<>>]
    ELSE LET parts == Split(authHeader)
         IN  IF Len(parts) # 2 \/ parts[1] # Str("Bearer")
             THEN [err |-> ErrInvalidToken, token |-> <<>>]
             ELSE [err |-> NoError, token |-> parts[2]]

(***************************************************************************)
(* Request context and its accessors                                       *)
(***************************************************************************)
ContextKey(name) == [type |-> "auth.ContextKey", name |-> name]

ClaimsContextKey == ContextKey("claims")

ScopesContextKey == ContextKey("scopes")

UserIDContextKey == ContextKey("user_id")

EmptyContext == <<>>

\* context.WithValue
WithValue(ctx, key, type, val) ==
    Append(ctx, [key |-> key, type |-> type, val |-> val])

HasValue(ctx, key) == \E i \in 1..Len(ctx) : ctx[i].key = key

\* ctx.Value: the innermost (latest) entry under exactly this key
Value(ctx, key) ==
    ctx[CHOOSE i \in 1..Len(ctx) :
            ctx[i].key = key /\ \A k \in (i+1)..Len(ctx) : ctx[k].key # key]

\* ctx.Value(key).(T)
Lookup(ctx, key, type, zero) ==
    IF HasValue(ctx, key) /\ Value(ctx, key).type = type
    THEN [val |-> Value(ctx, key).val, ok |-> TRUE]
    ELSE [val |-> zero, ok |-> FALSE]

GetUserID(ctx) == Lookup(ctx, UserIDContextKey, "string", "")

GetScopes(ctx) == Lookup(ctx, ScopesContextKey, "[]string", NilSlice)

GetClaims(ctx) == Lookup(ctx, ClaimsContextKey, "*Claims", NoClaims)

(***************************************************************************)
(* JWTAuthMiddleware                                                       *)
(***************************************************************************)
RECURSIVE TokenScopeLoop(_, _, _)
\* for _, tokenScope := range claims.Scopes { ... break }
TokenScopeLoop(requiredScope, tokenScopes, j) ==
    IF j > Len(tokenScopes) THEN FALSE
    ELSE IF tokenScopes[j] = requiredScope \/ tokenScopes[j] = "admin" THEN TRUE
    ELSE TokenScopeLoop(requiredScope, tokenScopes, j + 1)

RECURSIVE RequiredScopeLoop(_, _, _)
\* for _, requiredScope := range requiredScopes { ... break }
RequiredScopeLoop(requiredScopes, tokenScopes, i) ==
    IF i > Len(requiredScopes) THEN FALSE
    ELSE IF TokenScopeLoop(requiredScopes[i], tokenScopes, 1) THEN TRUE
    ELSE RequiredScopeLoop(requiredScopes, tokenScopes, i + 1)

\* variant: every required scope must be granted
ScopeCheck_All(requiredScopes, tokenScopes) ==
    \A i \in 1..Len(requiredScopes) :
        TokenScopeLoop(requiredScopes[i], tokenScopes, 1)

\* variant: "admin" is an ordinary scope
ScopeCheck_NoAdmin(requiredScopes, tokenScopes) ==
    IF Len(requiredScopes) > 0
    THEN \E i \in 1..Len(requiredScopes), j \in 1..Len(tokenScopes) :
            tokenScopes[j] = requiredScopes[i]
    ELSE TRUE

\* the scope check: TRUE when the request may proceed
ScopeCheck(requiredScopes, tokenScopes) ==
    IF Len(requiredScopes) > 0
    THEN RequiredScopeLoop(requiredScopes, tokenScopes, 1)
    ELSE TRUE

NoResponse == [status |-> 0, body |-> ""]

\* http.Error(w, msg, code)
HttpError(msg, code) == [status |-> code, body |-> msg]

\* variant: the values are stored under plain string keys
AuthContext_StringKeys(claims) ==
    WithValue(
        WithValue(
            WithValue(EmptyContext, [type |-> "string", name |-> "claims"],
                      "*Claims", claims),
            [type |-> "string", name |-> "scopes"], "[]string", claims.Scopes),
        [type |-> "string", name |-> "user_id"], "string", claims.UserID)

\* the context handed to next
AuthContext(claims) ==
    WithValue(
        WithValue(
            WithValue(EmptyContext, ClaimsContextKey, "*Claims", claims),
            ScopesContextKey, "[]string", claims.Scopes),
        UserIDContextKey, "string", claims.UserID)

\* variant: the return after the 403 is missing
AfterVerify_NoReturn(requiredScopes, v) ==
    IF v.err = Panic
    THEN [resp |-> NoResponse, nextCalled |-> FALSE, ctx |-> EmptyContext]
    ELSE IF v.err # NoError
    THEN IF v.err = ErrExpiredToken
         THEN [resp |-> HttpError("Token expired", StatusUnauthorized),
               nextCalled |-> FALSE, ctx |-> EmptyContext]
         ELSE [resp |-> HttpError("Unauthorized", StatusUnauthorized),
               nextCalled |-> FALSE, ctx |-> EmptyContext]
    ELSE IF ~ScopeCheck(requiredScopes, v.claims.Scopes.elems)
    THEN [resp |-> HttpError("Forbidden: insufficient scope", StatusForbidden),
          nextCalled |-> TRUE, ctx |-> AuthContext(v.claims)]
    ELSE [resp |-> NoResponse, nextCalled |-> TRUE, ctx |-> AuthContext(v.claims)]

\* variant: the expired-token branch is tested against the wrong error
AfterVerify_OneMessage(requiredScopes, v) ==
    IF v.err = Panic
    THEN [resp |-> NoResponse, nextCalled |-> FALSE, ctx |-> EmptyContext]
    ELSE IF v.err # NoError
    THEN IF v.err = ErrInvalidToken
         THEN [resp |-> HttpError("Token expired", StatusUnauthorized),
               nextCalled |-> FALSE, ctx |-> EmptyContext]
         ELSE [resp |-> HttpError("Unauthorized", StatusUnauthorized),
               nextCalled |-> FALSE, ctx |-> EmptyContext]
    ELSE IF ~ScopeCheck(requiredScopes, v.claims.Scopes.elems)
    THEN [resp |-> HttpError("Forbidden: insufficient scope", StatusForbidden),
          nextCalled |-> FALSE, ctx |-> EmptyContext]
    ELSE [resp |-> NoResponse, nextCalled |-> TRUE, ctx |-> AuthContext(v.claims)]

\* variant: a scope failure is answered like a verification failure
AfterVerify_ScopeIs401(requiredScopes, v) ==
    IF v.err = Panic
    THEN [resp |-> NoResponse, nextCalled |-> FALSE, ctx |-> EmptyContext]
    ELSE IF v.err # NoError
    THEN IF v.err = ErrExpiredToken
         THEN [resp |-> HttpError("Token expired", StatusUnauthorized),
               nextCalled |-> FALSE, ctx |-> EmptyContext]
         ELSE [resp |-> HttpError("Unauthorized", StatusUnauthorized),
               nextCalled |-> FALSE, ctx |-> EmptyContext]
    ELSE IF ~ScopeCheck(requiredScopes, v.claims.Scopes.elems)
    THEN [resp |-> HttpError("Unauthorized", StatusUnauthorized),
          nextCalled |-> FALSE, ctx |-> EmptyContext]
    ELSE [resp |-> NoResponse, nextCalled |-> TRUE, ctx |-> AuthContext(v.claims)]

\* variant: the scopes are checked before the verification error is looked at
AfterVerify_ScopeFirst(requiredScopes, v) ==
    IF v.err = Panic
    THEN [resp |-> NoResponse, nextCalled |-> FALSE, ctx |-> EmptyContext]
    ELSE IF ~ScopeCheck(requiredScopes,
                        IF v.err = NoError THEN v.claims.Scopes.elems ELSE <<>>)
    THEN [resp |-> HttpError("Forbidden: insufficient scope", StatusForbidden),
          nextCalled |-> FALSE, ctx |-> EmptyContext]
    ELSE IF v.err # NoError
    THEN IF v.err = ErrExpiredToken
         THEN [resp |-> HttpError("Token expired", StatusUnauthorized),
               nextCalled |-> FALSE, ctx |-> EmptyContext]
         ELSE [resp |-> HttpError("Unauthorized", StatusUnauthorized),
               nextCalled |-> FALSE, ctx |-> EmptyContext]
    ELSE [resp |-> NoResponse, nextCalled |-> TRUE, ctx |-> AuthContext(v.claims)]

\* what the middleware does once VerifyJWTToken has returned v
AfterVerify(requiredScopes, v) ==
    IF v.err = Panic
    THEN [resp |-> NoResponse, nextCalled |-> FALSE, ctx |-> EmptyContext]
    ELSE IF v.err # NoError
    THEN IF v.err = ErrExpiredToken
         THEN [resp |-> HttpError("Token expired", StatusUnauthorized),
               nextCalled |-> FALSE, ctx |-> EmptyContext]
         ELSE [resp |-> HttpError("Unauthorized", StatusUnauthorized),
               nextCalled |-> FALSE, ctx |-> EmptyContext]
    ELSE IF ~ScopeCheck(requiredScopes, v.claims.Scopes.elems)
    THEN [resp |-> HttpError("Forbidden: insufficient scope", StatusForbidden),
          nextCalled |-> FALSE, ctx |-> EmptyContext]
    ELSE [resp |-> NoResponse, nextCalled |-> TRUE, ctx |-> AuthContext(v.claims)]

\* the outcomes of one request through JWTAuthMiddleware(requiredScopes)
JWTAuthMiddleware(a, requiredScopes, authHeader, t) ==
    LET x == ExtractBearerToken(authHeader)
    IN  IF x.err # NoError
        THEN {[extractErr |-> x.err, verifyCalled |-> FALSE,
               verify |-> InvalidResult,
               resp |-> HttpError("Unauthorized", StatusUnauthorized),
               nextCalled |-> FALSE, ctx |-> EmptyContext]}
        ELSE {[extractErr |-> NoError, verifyCalled |-> TRUE, verify |-> v,
               resp |-> AfterVerify(requiredScopes, v).resp,
               nextCalled |-> AfterVerify(requiredScopes, v).nextCalled,
               ctx |-> AfterVerify(requiredScopes, v).ctx]
              : v \in VerifyResults(a, x.token, t)}

(***************************************************************************)
(* The environment: configurations, callers' inputs, presented headers     *)
(***************************************************************************)
\* JWTExpirationTime values, in ticks: negative, zero, sub-second, whole
\* seconds, and a whole second plus a fraction
Lifetimes ==
    {0 - TicksPerSecond, 0, 1, TicksPerSecond, TicksPerSecond + 1, 2 * TicksPerSecond}

\* a key pair is named by one identifier; "nil" is the unset pointer
KeyPairs == {[priv |-> NilKey, pub |-> NilKey], [priv |-> "k1", pub |-> "k1"]}

MethodNames == {"HS256", "RS256", "PS256"}

AuthConfigs(lifetimes) ==
    {[JWTSecret |-> "s1", JWTPrivateKey |-> kp.priv, JWTPublicKey |-> kp.pub,
      JWTSigningMethod |-> m, JWTExpirationTime |-> l]
     : kp \in KeyPairs, m \in MethodNames, l \in lifetimes}

UserIDs == {"", "u1"}

RoleLists == {NilSlice, GoSlice(<<>>), GoSlice(<<"user">>)}

ScopeLists ==
    {NilSlice, GoSlice(<<>>), GoSlice(<<"read">>), GoSlice(<<"write">>),
     GoSlice(<<"admin">>), GoSlice(<<"write", "admin">>),
     GoSlice(<<"delete", "read">>)}

CodecScopeLists == {NilSlice, GoSlice(<<>>), GoSlice(<<"read", "write">>)}

RequiredLists == {<<>>, <<"read">>, <<"write", "delete">>, <<"delete", "read">>}

NoToken == [state |-> "none"]

Idle == [op |-> "idle"]

\* a payload an outsider writes: long-lived, all-powerful
OutsiderPayload ==
    MarshalClaims([ExpiresAt |-> MaxTime + TicksPerSecond, IssuedAt |-> 0,
                   NotBefore |-> 0, Subject |-> "root", UserID |-> "root",
                   Roles |-> GoSlice(<<"admin">>), Scopes |-> GoSlice(<<"admin">>)])

\* token strings made without the Authenticator's keys
OutsiderTokens ==
    {<<>>, Str("abc"),
     <<JWTAtom("HS256", OutsiderPayload,
               Sign("HMAC", "s2", "HS256", OutsiderPayload))>>,
     <<JWTAtom("RS256", OutsiderPayload,
               Sign("RSA", "k2", "RS256", OutsiderPayload))>>,
     <<JWTAtom("HS256", OutsiderPayload,
               Sign("HMAC", "k1", "HS256", OutsiderPayload))>>,
     <<JWTAtom("none", OutsiderPayload,
               Sign("none", "", "none", OutsiderPayload))>>,
     <<JWTAtom("ES256", OutsiderPayload,
               Sign("ECDSA", "k2", "ES256", OutsiderPayload))>>}

\* an issued token with its payload or header rewritten, signature kept
TamperedTokens(t) ==
    LET j == t[1]
    IN  {<<[j EXCEPT !.claims.scopes = [present |-> TRUE, elems |-> <<"admin">>]]>>,
         <<[j EXCEPT !.claims.exp = MaxTime + TicksPerSecond]>>,
         <<[j EXCEPT !.alg = "none"]>>}

\* a token from a replica sharing the keys whose clock runs a second ahead
ReplicaTokens(a, t) ==
    {r.token : r \in {g \in GenerateResults(a, "u2", GoSlice(<<"user">>),
                                            GoSlice(<<"read">>), t + TicksPerSecond)
                      : g.err = NoError}}

PresentedTokens ==
    OutsiderTokens \cup ReplicaTokens(auth, now)
    \cup (IF tok.state = "issued"
          THEN {tok.token} \cup TamperedTokens(tok.token)
          ELSE {})

\* the token strings handed to VerifyJWTToken directly
VerifiedTokens ==
    {Str("abc")} \cup ReplicaTokens(auth, now)
    \cup (IF tok.state = "issued"
          THEN {tok.token} \cup TamperedTokens(tok.token)
          ELSE {})

Bearer(t) == <<Word("Bearer"), SP>> \o t

\* Authorization headers that are not "Bearer <value>"
MalformedHeaders(t) ==
    {<<>>, Str("Bearer"), t,
     <<Word("Basic"), SP>> \o t,
     <<Word("bearer"), SP>> \o t,
     <<Word("Bearer"), SP, SP>> \o t,
     <<Word("Bearer"), SP>> \o t \o <<SP>>,
     <<Word("Bearer"), SP>> \o t \o <<SP>> \o t,
     <<SP, Word("Bearer"), SP>> \o t}

PresentedHeaders ==
    {Bearer(t) : t \in PresentedTokens}
    \cup (IF tok.state = "issued" THEN MalformedHeaders(tok.token)
          ELSE MalformedHeaders(Str("abc")))

(***************************************************************************)
(* The store of examples: objects on the heap, the repository's map        *)
(***************************************************************************)
\* the identifiers examples are stored under
IDs == {"a", "b", "c"}

\* the nil *models.Example; the objects' addresses are 1..Len(heap)
NilPtr == 0

EmptyHeap == <<>>

\* the map of a new MemoryRepository: no key is present
NoExamples == [i \in IDs |-> NilPtr]

\* no request is in flight
NoRequests == <<>>

\* the (method, path) label pairs of the routes observed
MetricKeys == {<<"GET", "/a">>, <<"POST", "/b">>}

\* the status labels of http_requests_total
MetricStatuses == {"200", "500"}

\* the collectors of metrics.New: no sample, every child at zero
NoMetrics ==
    [requestSizeCount |-> [k \in MetricKeys |-> 0],
     inFlight         |-> [k \in MetricKeys |-> 0],
     requestsTotal    |-> [k \in MetricKeys |-> [c \in MetricStatuses |-> 0]]]

(***************************************************************************)
(* Actions                                                                 *)
(***************************************************************************)
Tick ==
    /\ now < MaxTime
    /\ now' = now + 1
    /\ UNCHANGED <<auth, tok, last>>
    /\ UNCHANGED restVars

\* a caller obtains a token; the environment follows one token at a time
GenerateJWTToken(userID, roles, scopes) ==
    /\ tok.state # "issued"
    /\ \E r \in GenerateResults(auth, userID, roles, scopes, now) :
          tok' = IF r.err = NoError
                 THEN [state |-> "issued", token |-> r.token, userID |-> userID,
                       roles |-> roles, scopes |-> scopes, at |-> now]
                 ELSE [state |-> "failed", err |-> r.err]
    /\ UNCHANGED <<auth, now, last>>
    /\ UNCHANGED restVars

\* a caller verifies a token string
VerifyJWTToken(tokenString) ==
    /\ \E v \in VerifyResults(auth, tokenString, now) :
          last' = [op |-> "verify", token |-> tokenString, at |-> now,
                   err |-> v.err, claims |-> v.claims]
    /\ UNCHANGED <<auth, now, tok>>
    /\ UNCHANGED restVars

\* one request is served by JWTAuthMiddleware(requiredScopes)
ServeJWT(requiredScopes, authHeader) ==
    /\ \E o \in JWTAuthMiddleware(auth, requiredScopes, authHeader, now) :
          last' = [op |-> "jwt", header |-> authHeader, required |-> requiredScopes,
                   at |-> now, extractErr |-> o.extractErr,
                   verifyCalled |-> o.verifyCalled, verify |-> o.verify,
                   resp |-> o.resp, nextCalled |-> o.nextCalled, ctx |-> o.ctx]
    /\ UNCHANGED <<auth, now, tok>>
    /\ UNCHANGED restVars

(***************************************************************************)
(* Specification of the middleware: requests against one Authenticator      *)
(***************************************************************************)
Init ==
    /\ authConfig \in {c \in AuthConfigs({TicksPerSecond})
                   : c.JWTSigningMethod \in HMACMethods \cup RSAMethods}
    /\ auth = NewAuthenticator(authConfig)
    /\ now = 0
    /\ tok = NoToken
    /\ last = Idle
    /\ reqs = NoRequests
    /\ heap = EmptyHeap /\ examples = NoExamples /\ stored = NoExamples
    /\ metrics = NoMetrics

Next ==
    \/ Tick
    \/ \E s \in ScopeLists : GenerateJWTToken("u1", GoSlice(<<"user">>), s)
    \/ \E r \in RequiredLists, h \in PresentedHeaders : ServeJWT(r, h)

Spec == Init /\ [][Next]_vars

(***************************************************************************)
(* Specification of the token codec: issue and verify, every lifetime      *)
(***************************************************************************)
InitCodec ==
    /\ authConfig \in AuthConfigs(Lifetimes)
    /\ auth = NewAuthenticator(authConfig)
    /\ now = 0
    /\ tok = NoToken
    /\ last = Idle
    /\ reqs = NoRequests
    /\ heap = EmptyHeap /\ examples = NoExamples /\ stored = NoExamples
    /\ metrics = NoMetrics

NextCodec ==
    \/ Tick
    \/ \E u \in UserIDs, r \in RoleLists, s \in CodecScopeLists :
          GenerateJWTToken(u, r, s)
    \/ \E t \in VerifiedTokens : VerifyJWTToken(t)

SpecCodec == InitCodec /\ [][NextCodec]_vars

(***************************************************************************)
(* Properties of JWTAuthMiddleware (specification Spec)                    *)
(***************************************************************************)
Range(s) == {s[i] : i \in 1..Len(s)}

\* the scope policy as the design states it, over sets
PolicyAllows(granted, required) ==
    \/ required = <<>>
    \/ Range(granted) \cap Range(required) # {}
    \/ "admin" \in Range(granted)

\* the header is "Bearer", one space, and a space-free value
IsBearerForm(h) ==
    /\ Len(h) >= 2
    /\ h[1] = Word("Bearer")
    /\ h[2] = SP
    /\ \A i \in 3..Len(h) : h[i] # SP

\* the credential of a header in Bearer form
BearerValue(h) == SubSeq(h, 3, Len(h))

Served == last.op = "jwt"

\* the request presented a credential that verifies at the time it is served
PresentedVerifies ==
    /\ IsBearerForm(last.header)
    /\ \E v \in VerifyResults(auth, BearerValue(last.header), last.at) : v.err = NoError

\* the claims VerifyJWTToken returns for the presented credential
PresentedClaims ==
    (CHOOSE v \in VerifyResults(auth, BearerValue(last.header), last.at) :
        v.err = NoError).claims

\* C1: the next handler is invoked only for a request whose header gave a
\* credential, whose credential VerifyJWTToken accepted, and whose scopes the
\* policy allows against requiredScopes
C1_NextOnlyWhenAllStagesSucceed ==
    (Served /\ last.nextCalled) =>
        /\ ExtractBearerToken(last.header).err = NoError
        /\ PresentedVerifies
        /\ PolicyAllows(PresentedClaims.Scopes.elems, last.required)

C1_Witness ==
    /\ Served
    /\ last.nextCalled
    /\ last.required = <<"write", "delete">>

\* C2: a header that is empty or not "Bearer <value>" is answered 401
\* "Unauthorized" and the token is never handed to VerifyJWTToken
C2_MalformedHeaderIs401 ==
    (Served /\ ~IsBearerForm(last.header)) =>
        /\ last.resp = [status |-> StatusUnauthorized, body |-> "Unauthorized"]
        /\ ~last.verifyCalled
        /\ ~last.nextCalled

C2_Witness ==
    /\ Served
    /\ tok.state = "issued"
    /\ last.header = Bearer(tok.token) \o <<SP>> \o tok.token
    /\ last.resp.status = StatusUnauthorized

C4_ScopeDenialIs403 ==
    Served =>
        /\ (PresentedVerifies
            /\ ~PolicyAllows(PresentedClaims.Scopes.elems, last.required))
           => /\ last.resp = [status |-> StatusForbidden,
                              body |-> "Forbidden: insufficient scope"]
              /\ ~last.nextCalled
        /\ (last.resp.status = StatusForbidden) => PresentedVerifies

C4_Witness ==
    /\ Served
    /\ PresentedVerifies
    /\ last.required # <<>>
    /\ last.resp.status = StatusForbidden

\* C5: the context handed to next yields, through GetUserID, GetScopes and
\* GetClaims, the verified token's user ID, scopes and claims, each present
C5_ContextCarriesIdentity ==
    (Served /\ last.nextCalled) =>
        /\ PresentedVerifies
        /\ GetUserID(last.ctx) = [val |-> PresentedClaims.UserID, ok |-> TRUE]
        /\ GetScopes(last.ctx) = [val |-> PresentedClaims.Scopes, ok |-> TRUE]
        /\ GetClaims(last.ctx) = [val |-> PresentedClaims, ok |-> TRUE]
        /\ (tok.state = "issued" /\ last.header = Bearer(tok.token))
           => /\ GetUserID(last.ctx).val = tok.userID
              /\ GetScopes(last.ctx).val.elems = tok.scopes.elems

C5_Witness ==
    /\ Served
    /\ last.nextCalled
    /\ tok.state = "issued"
    /\ last.header = Bearer(tok.token)
    /\ last.required = <<"read">>
    /\ GetUserID(last.ctx) = [val |-> "u1", ok |-> TRUE]

\* C6: for a verified token with scopes G on a route requiring R, the
\* request is allowed if and only if R is empty, or G contains an element
\* of R, or G contains "admin"
C6_ScopePolicy ==
    (Served /\ PresentedVerifies) =>
        /\ last.nextCalled
           <=> PolicyAllows(PresentedClaims.Scopes.elems, last.required)
        /\ (last.required = <<>>) => last.nextCalled
        /\ (PresentedClaims.Scopes.elems = <<"read">>
            /\ last.required = <<"write", "delete">>) => ~last.nextCalled
        /\ (PresentedClaims.Scopes.elems = <<"read">>
            /\ last.required = <<"delete", "read">>) => last.nextCalled

C6_Witness ==
    /\ Served
    /\ PresentedVerifies
    /\ PresentedClaims.Scopes.elems = <<"read">>
    /\ last.required = <<"delete", "read">>
    /\ last.nextCalled

\* C7: a verified token whose scopes contain "admin", at any position, is
\* authorized whatever the route requires
C7_AdminOverride ==
    (Served /\ PresentedVerifies
     /\ \E j \in 1..Len(PresentedClaims.Scopes.elems) :
            PresentedClaims.Scopes.elems[j] = "admin")
    => (last.nextCalled /\ last.resp = NoResponse)

C7_Witness ==
    /\ Served
    /\ PresentedVerifies
    /\ PresentedClaims.Scopes.elems = <<"write", "admin">>
    /\ last.required = <<"delete", "read">>
    /\ last.nextCalled

(***************************************************************************)
(* Properties of the token codec (specification SpecCodec)                 *)
(***************************************************************************)
\* VerifyJWTToken was called on the token GenerateJWTToken returned
VerifiedIssued ==
    /\ last.op = "verify"
    /\ tok.state = "issued"
    /\ last.token = tok.token

\* the expiry instant of the issued token: issue time plus lifetime, in whole seconds
IssuedExpiry ==
    (tok.at + auth.jwtExpiration) - ((tok.at + auth.jwtExpiration) % TicksPerSecond)

\* the issuedAt of the issued token: issue time in whole seconds
IssuedAt == tok.at - (tok.at % TicksPerSecond)

\* C8: a token from GenerateJWTToken(userID, roles, scopes), verified by the
\* same Authenticator before its expiry, is accepted and the claims carry the
\* user ID (as UserID and as Subject), the roles and the scopes it was issued for
C8_RoundTrip ==
    (VerifiedIssued /\ last.at < IssuedExpiry) =>
        /\ last.err = NoError
        /\ last.claims.UserID = tok.userID
        /\ last.claims.Subject = tok.userID
        /\ last.claims.Roles.elems = tok.roles.elems
        /\ last.claims.Scopes.elems = tok.scopes.elems

C8_Witness ==
    /\ VerifiedIssued
    /\ last.at < IssuedExpiry
    /\ last.at > tok.at
    /\ tok.userID = "u1"
    /\ tok.roles = GoSlice(<<"user">>)
    /\ tok.scopes = GoSlice(<<"read", "write">>)
    /\ last.claims.Scopes = GoSlice(<<"read", "write">>)

\* C9 as stated, for a lifetime L of whole seconds, L > 0: rejected as expired
\* strictly after issuedAt + L, accepted at exactly issuedAt + L
C9_BoundaryInclusive ==
    (VerifiedIssued /\ auth.jwtExpiration > 0
     /\ auth.jwtExpiration % TicksPerSecond = 0) =>
        /\ (last.at > IssuedAt + auth.jwtExpiration) => (last.err = ErrExpiredToken)
        /\ (last.at = IssuedAt + auth.jwtExpiration) => (last.err = NoError)

\* C9 amended: the token is rejected as expired at and after its expiresAt and
\* accepted strictly before it; expiresAt is issuedAt + L for a lifetime of
\* whole seconds
C9_BoundaryExclusive ==
    VerifiedIssued =>
        /\ (last.at >= IssuedExpiry) => (last.err = ErrExpiredToken)
        /\ (last.at < IssuedExpiry) => (last.err = NoError)
        /\ (auth.jwtExpiration % TicksPerSecond = 0)
           => (IssuedExpiry = IssuedAt + auth.jwtExpiration)

C9_Witness ==
    /\ VerifiedIssued
    /\ auth.jwtExpiration = TicksPerSecond
    /\ last.at = IssuedAt + auth.jwtExpiration
    /\ last.err = ErrExpiredToken

\* C10 as stated: every issued token has expiresAt strictly after issuedAt and
\* notBefore equal to issuedAt
C10_ExpiresAfterIssued ==
    (tok.state = "issued") =>
        /\ tok.token[1].claims.exp > tok.token[1].claims.iat
        /\ tok.token[1].claims.nbf = tok.token[1].claims.iat

(***************************************************************************)
(* Basic credentials: base64 text, strings.SplitN, ExtractBasicAuth        *)
(***************************************************************************)
\* longest decoded payload of the base64 text presented
MaxPayloadLen == 3

\* the characters of a decoded payload
Chars == {":", "u", "p"}

\* the text base64.StdEncoding.EncodeToString gives for a non-empty payload;
\* Word atoms carry text that is not base64 (its length is no multiple of 4)
B64(payload) == [kind |-> "b64", payload |-> payload]

RECURSIVE DecodeString(_)
\* base64.StdEncoding.DecodeString: the empty text decodes to the empty
\* payload; padding ("=", present when the payload's length is no multiple
\* of 3) is accepted at the end of the text only
DecodeString(s) ==
    IF s = <<>> THEN [err |-> NoError, payload |-> <<>>]
    ELSE IF s[1].kind # "b64" THEN [err |-> "illegal base64 data", payload |-> <<>>]
    ELSE IF Len(s) = 1 THEN [err |-> NoError, payload |-> s[1].payload]
    ELSE IF Len(s[1].payload) % 3 # 0
         THEN [err |-> "illegal base64 data", payload |-> <<>>]
    ELSE LET rest == DecodeString(Tail(s))
         IN  IF rest.err # NoError THEN rest
             ELSE [err |-> NoError, payload |-> s[1].payload \o rest.payload]

HasColon(payload) == \E i \in 1..Len(payload) : payload[i] = ":"

FirstColon(payload) ==
    CHOOSE i \in 1..Len(payload) : payload[i] = ":" /\ \A k \in 1..(i-1) : payload[k] # ":"

\* strings.SplitN(payload, ":", 2)
SplitN2(payload) ==
    IF ~HasColon(payload) THEN <<payload>>
    ELSE <<SubSeq(payload, 1, FirstColon(payload) - 1),
           SubSeq(payload, FirstColon(payload) + 1, Len(payload))>>

\* the nil *BasicAuth
NilBasicAuth == [nil |-> TRUE]

\* variant: the payload is cut at every colon and must give two pieces
ExtractBasicAuth_LastColon(authHeader) ==
    IF authHeader = <<>> THEN [err |-> ErrMissingToken, creds |-> NilBasicAuth]
    ELSE LET parts == Split(authHeader)
         IN  IF Len(parts) # 2 \/ parts[1] # Str("Basic")
             THEN [err |-> ErrInvalidToken, creds |-> NilBasicAuth]
             ELSE LET dec == DecodeString(parts[2])
                      pair == SplitN2(dec.payload)
                  IN  IF dec.err # NoError \/ Len(pair) # 2 \/ HasColon(pair[2])
                      THEN [err |-> ErrInvalidToken, creds |-> NilBasicAuth]
                      ELSE [err |-> NoError,
                            creds |-> [Username |-> pair[1], Password |-> pair[2]]]

ExtractBasicAuth(authHeader) ==
    IF authHeader = <<>> THEN [err |-> ErrMissingToken, creds |-> NilBasicAuth]
    ELSE LET parts == Split(authHeader)
         IN  IF Len(parts) # 2 \/ parts[1] # Str("Basic")
             THEN [err |-> ErrInvalidToken, creds |-> NilBasicAuth]
             ELSE LET dec == DecodeString(parts[2])
                  IN  IF dec.err # NoError
                      THEN [err |-> ErrInvalidToken, creds |-> NilBasicAuth]
                      ELSE LET pair == SplitN2(dec.payload)
                           IN  IF Len(pair) # 2
                               THEN [err |-> ErrInvalidToken, creds |-> NilBasicAuth]
                               ELSE [err |-> NoError,
                                     creds |-> [Username |-> pair[1],
                                                Password |-> pair[2]]]

(***************************************************************************)
(* Specification of the header parsers: one header, one call               *)
(***************************************************************************)
\* what NewServer hands to NewAuthenticator: no key pair
ServerAuthConfig ==
    [JWTSecret |-> "s1", JWTPrivateKey |-> NilKey, JWTPublicKey |-> NilKey,
     JWTSigningMethod |-> "HS256", JWTExpirationTime |-> TicksPerSecond]

RECURSIVE SeqsUpTo(_, _)
\* the sequences over S of length at most n
SeqsUpTo(S, n) ==
    IF n = 0 THEN {<<>>}
    ELSE LET shorter == SeqsUpTo(S, n - 1)
         IN  shorter \cup {Append(q, x) : q \in shorter, x \in S}

Payloads == SeqsUpTo(Chars, MaxPayloadLen)

\* the text after the scheme: empty, not base64, base64, base64 in two runs
HeaderValues ==
    {<<>>, Str("abc")}
    \cup {<<B64(q)>> : q \in Payloads \ {<<>>}}
    \cup {<<B64(q), B64(r)>> : q \in {<<"u">>, <<"u", ":", "p">>},
                               r \in {<<"p">>, <<":", "p">>}}

HeaderSchemes == {"Basic", "basic", "Bearer", "bearer"}

\* the values of the Authorization header
Headers ==
    {<<>>}
    \cup {pre \o Str(sch) \o sep \o v \o post
          : pre \in {<<>>, <<SP>>}, sch \in HeaderSchemes,
            sep \in {<<>>, <<SP>>, <<SP, SP>>}, v \in HeaderValues,
            post \in {<<>>, <<SP>>, <<SP, Word("b")>>}}

CallExtractBearerToken ==
    /\ last.op = "header"
    /\ LET r == ExtractBearerToken(last.header)
       IN  last' = [op |-> "bearer", header |-> last.header,
                    err |-> r.err, token |-> r.token]
    /\ UNCHANGED <<auth, now, tok>>
    /\ UNCHANGED restVars

CallExtractBasicAuth ==
    /\ last.op = "header"
    /\ LET r == ExtractBasicAuth(last.header)
       IN  last' = [op |-> "basic", header |-> last.header,
                    err |-> r.err, creds |-> r.creds]
    /\ UNCHANGED <<auth, now, tok>>
    /\ UNCHANGED restVars

InitExtract ==
    /\ authConfig = ServerAuthConfig
    /\ auth = NewAuthenticator(authConfig)
    /\ now = 0
    /\ tok = NoToken
    /\ last \in {[op |-> "header", header |-> h] : h \in Headers}
    /\ reqs = NoRequests
    /\ heap = EmptyHeap /\ examples = NoExamples /\ stored = NoExamples
    /\ metrics = NoMetrics

NextExtract ==
    \/ CallExtractBearerToken
    \/ CallExtractBasicAuth

SpecExtract == InitExtract /\ [][NextExtract]_vars

(***************************************************************************)
(* Properties of the header parsers (specification SpecExtract)            *)
(***************************************************************************)
\* C11: ExtractBearerToken returns the value v exactly when the header is the
\* word "Bearer", one space and a v without any space; the empty header gives
\* the missing-credential error; every other header gives the malformed-header
\* error, among them another scheme or another case of it ("Basic abc",
\* "bearer abc") and a part count other than two ("Bearer", "Bearer  abc",
\* "Bearer a b").
C11_ExtractBearerToken ==
    (last.op = "bearer") =>
        LET h == last.header
        IN  /\ (last.err = NoError) <=> IsBearerForm(h)
            /\ IsBearerForm(h) => last.token = BearerValue(h)
            /\ (h = <<>>) => last.err = ErrMissingToken
            /\ (h # <<>> /\ ~IsBearerForm(h)) =>
                   (last.err = ErrInvalidToken /\ last.token = <<>>)
            /\ (h \in {<<Word("Basic"), SP, Word("abc")>>,
                       <<Word("bearer"), SP, Word("abc")>>,
                       <<Word("Bearer")>>,
                       <<Word("Bearer"), SP, SP, Word("abc")>>,
                       <<Word("Bearer"), SP, Word("abc"), SP, Word("b")>>})
                   => last.err = ErrInvalidToken

\* a header in Bearer form was parsed and its value returned
C11_Witness ==
    /\ last.op = "bearer"
    /\ last.header = <<Word("Bearer"), SP, Word("abc")>>
    /\ last.err = NoError
    /\ last.token = Str("abc")

\* the header is "Basic", one space, and base64 text of a payload with a colon
IsBasicForm(h) ==
    /\ Len(h) >= 2
    /\ h[1] = Word("Basic")
    /\ h[2] = SP
    /\ \A i \in 3..Len(h) : h[i] # SP
    /\ DecodeString(SubSeq(h, 3, Len(h))).err = NoError
    /\ \E i \in 1..Len(DecodeString(SubSeq(h, 3, Len(h))).payload) :
          DecodeString(SubSeq(h, 3, Len(h))).payload[i] = ":"

\* C12: ExtractBasicAuth succeeds exactly when the header is "Basic", one
\* space and valid base64 text whose decoded payload holds a colon; the
\* username is the text before the first colon and the password everything
\* after it; the empty header gives the missing-credential error and every
\* other failure the malformed-header error.
C12_ExtractBasicAuth ==
    (last.op = "basic") =>
        LET h == last.header
            payload == DecodeString(SubSeq(h, 3, Len(h))).payload
        IN  /\ (last.err = NoError) <=> IsBasicForm(h)
            /\ IsBasicForm(h) =>
                   /\ last.creds.Username \o <<":">> \o last.creds.Password = payload
                   /\ \A i \in 1..Len(last.creds.Username) :
                         last.creds.Username[i] # ":"
            /\ (h = <<>>) => last.err = ErrMissingToken
            /\ (h # <<>> /\ ~IsBasicForm(h)) =>
                   (last.err = ErrInvalidToken /\ last.creds = NilBasicAuth)

\* credentials were extracted whose password holds a colon
C12_Witness ==
    /\ last.op = "basic"
    /\ last.err = NoError
    /\ last.creds.Username = <<"u">>
    /\ \E i \in 1..Len(last.creds.Password) : last.creds.Password[i] = ":"

(***************************************************************************)
(* Properties of NewAuthenticator (specification SpecCodec)                *)
(***************************************************************************)
\* C14: for a signing-method name that is not recognised NewAuthenticator
\* still gives an Authenticator, which signs with HMAC-SHA256 under the
\* configured secret; and GenerateJWTToken never fails with "unsupported
\* signing method" for an Authenticator that NewAuthenticator built.
C14_UnknownMethodIsHS256 ==
    /\ auth.jwtSigningMethod \in HMACMethods \cup RSAMethods
    /\ (authConfig.JWTSigningMethod \notin HMACMethods \cup RSAMethods) =>
           /\ auth.jwtSigningMethod = "HS256"
           /\ tok.state # "failed"
           /\ (tok.state = "issued") =>
                  /\ tok.token[1].alg = "HS256"
                  /\ tok.token[1].sig =
                        Sign("HMAC", authConfig.JWTSecret, "HS256",
                             tok.token[1].claims)
    /\ (tok.state = "failed") => tok.err # "unsupported signing method"
    /\ \A u \in UserIDs, r \in RoleLists, s \in CodecScopeLists :
          \A g \in GenerateResults(auth, u, r, s, now) :
             g.err # "unsupported signing method"

\* a token was issued under a configuration naming an unrecognised method
C14_Witness ==
    /\ authConfig.JWTSigningMethod = "PS256"
    /\ tok.state = "issued"
    /\ tok.token[1].sig.family = "HMAC"

(***************************************************************************)
(* models.Example and MemoryRepository                                     *)
(*                                                                         *)
(* The repository's map holds pointers: examples[id] is the address of an  *)
(* object on the heap, NilPtr when the key is absent.  A Name or a         *)
(* Description is a string of that many letters.                           *)
(***************************************************************************)
\* objects the callers allocate
MaxObjects == 2

ErrNotFound == "resource not found"

ErrAlreadyExists == "resource already exists"

ErrInternal == "internal repository error"

\* models.NewExample at time t
NewExample(id, name, description, t) ==
    [ID |-> id, CreatedAt |-> t, UpdatedAt |-> t,
     Name |-> name, Description |-> description, Status |-> "active"]

\* the keys present in the map
Keys(ex) == {i \in IDs : ex[i] # NilPtr}

GetExample(ex, id) ==
    IF ex[id] # NilPtr THEN [example |-> ex[id], err |-> NoError]
    ELSE [example |-> NilPtr, err |-> ErrNotFound]

\* the orders in which range may visit the keys of the map
RangeOrders(ex) ==
    {q \in [1..Cardinality(Keys(ex)) -> Keys(ex)] :
        \A i, j \in 1..Cardinality(Keys(ex)) : (i # j) => (q[i] # q[j])}

RECURSIVE ListLoop_SkipOne(_, _, _, _, _, _)
\* variant: the element at the offset is skipped as well
ListLoop_SkipOne(ex, order, i, acc, limit, offset) ==
    IF i >= Len(order) THEN acc
    ELSE ListLoop_SkipOne(ex, order, i + 1,
                  IF i > offset /\ (limit <= 0 \/ Len(acc) < limit)
                  THEN Append(acc, ex[order[i + 1]]) ELSE acc,
                  limit, offset)

RECURSIVE ListLoop(_, _, _, _, _, _)
\* i := 0; for _, example := range r.examples { ...; i++ }
ListLoop(ex, order, i, acc, limit, offset) ==
    IF i >= Len(order) THEN acc
    ELSE ListLoop(ex, order, i + 1,
                  IF i >= offset /\ (limit <= 0 \/ Len(acc) < limit)
                  THEN Append(acc, ex[order[i + 1]]) ELSE acc,
                  limit, offset)

\* the results ListExamples can have, one for every order of the range
ListExamples(ex, limit, offset) ==
    {[examples |-> ListLoop(ex, order, 0, <<>>, limit, offset), err |-> NoError]
     : order \in RangeOrders(ex)}

\* variant: the object is stored although the key is present
CreateExample_Overwrite(ex, h, p) ==
    IF ex[h[p].ID] # NilPtr
    THEN [err |-> ErrAlreadyExists, examples |-> [ex EXCEPT ![h[p].ID] = p], heap |-> h]
    ELSE [err |-> NoError, examples |-> [ex EXCEPT ![h[p].ID] = p], heap |-> h]

CreateExample(ex, h, p) ==
    IF ex[h[p].ID] # NilPtr
    THEN [err |-> ErrAlreadyExists, examples |-> ex, heap |-> h]
    ELSE [err |-> NoError, examples |-> [ex EXCEPT ![h[p].ID] = p], heap |-> h]

\* variant: the object passed in is stamped but the map keeps its entry
UpdateExample_NoStore(ex, h, p, t) ==
    IF ex[h[p].ID] = NilPtr
    THEN [err |-> ErrNotFound, examples |-> ex, heap |-> h]
    ELSE [err |-> NoError, examples |-> ex,
          heap |-> [h EXCEPT ![p].UpdatedAt = t]]

UpdateExample(ex, h, p, t) ==
    IF ex[h[p].ID] = NilPtr
    THEN [err |-> ErrNotFound, examples |-> ex, heap |-> h]
    ELSE [err |-> NoError, examples |-> [ex EXCEPT ![h[p].ID] = p],
          heap |-> [h EXCEPT ![p].UpdatedAt = t]]

DeleteExample(ex, h, id) ==
    IF ex[id] = NilPtr
    THEN [err |-> ErrNotFound, examples |-> ex, heap |-> h]
    ELSE [err |-> NoError, examples |-> [ex EXCEPT ![id] = NilPtr], heap |-> h]

(***************************************************************************)
(* Specification of the repository: callers of one MemoryRepository        *)
(***************************************************************************)
\* what a successful call leaves stored under an identifier
Recorded(err, id, p) ==
    IF err = NoError THEN [stored EXCEPT ![id] = p] ELSE stored

\* a caller allocates an example with a name of three letters
CallerNewExample(id) ==
    /\ Len(heap) < MaxObjects
    /\ heap' = Append(heap, NewExample(id, 3, 0, now))
    /\ last' = [op |-> "new", ptr |-> Len(heap) + 1]
    /\ UNCHANGED <<metrics, auth, now, tok, authConfig, reqs, examples, stored>>

RepoCreateExample(p) ==
    /\ p \in 1..Len(heap)
    /\ LET r == CreateExample(examples, heap, p)
       IN  /\ examples' = r.examples
           /\ heap' = r.heap
           /\ stored' = Recorded(r.err, heap[p].ID, p)
           /\ last' = [op |-> "create", id |-> heap[p].ID, ptr |-> p, err |-> r.err]
    /\ UNCHANGED <<metrics, auth, now, tok, authConfig, reqs>>

RepoUpdateExample(p) ==
    /\ p \in 1..Len(heap)
    /\ LET r == UpdateExample(examples, heap, p, now)
       IN  /\ examples' = r.examples
           /\ heap' = r.heap
           /\ stored' = Recorded(r.err, heap[p].ID, p)
           /\ last' = [op |-> "update", id |-> heap[p].ID, ptr |-> p, err |-> r.err]
    /\ UNCHANGED <<metrics, auth, now, tok, authConfig, reqs>>

RepoDeleteExample(id) ==
    /\ LET r == DeleteExample(examples, heap, id)
       IN  /\ examples' = r.examples
           /\ heap' = r.heap
           /\ stored' = Recorded(r.err, id, NilPtr)
           /\ last' = [op |-> "delete", id |-> id, ptr |-> NilPtr, err |-> r.err]
    /\ UNCHANGED <<metrics, auth, now, tok, authConfig, reqs>>

RepoGetExample(id) ==
    /\ LET r == GetExample(examples, id)
       IN  last' = [op |-> "get", id |-> id, ptr |-> r.example, err |-> r.err]
    /\ UNCHANGED <<metrics, auth, now, tok, authConfig, reqs, heap, examples, stored>>

InitRepo ==
    /\ authConfig = ServerAuthConfig
    /\ auth = NewAuthenticator(authConfig)
    /\ now = 0
    /\ tok = NoToken
    /\ last = Idle
    /\ reqs = NoRequests
    /\ heap = EmptyHeap /\ examples = NoExamples /\ stored = NoExamples
    /\ metrics = NoMetrics

NextRepo ==
    \/ Tick
    \/ \E id \in IDs : CallerNewExample(id)
    \/ \E p \in 1..MaxObjects : RepoCreateExample(p)
    \/ \E p \in 1..MaxObjects : RepoUpdateExample(p)
    \/ \E id \in IDs : RepoDeleteExample(id)
    \/ \E id \in IDs : RepoGetExample(id)

SpecRepo == InitRepo /\ [][NextRepo]_vars

(***************************************************************************)
(* Properties of MemoryRepository (specification SpecRepo)                 *)
(***************************************************************************)
\* C15: CreateExample with an ID that is stored returns ErrAlreadyExists;
\* UpdateExample and DeleteExample with an ID that is not stored return
\* ErrNotFound; and a call that fails so leaves the map and the content of
\* every example as they were.
C15_FailuresChangeNothing ==
    [][/\ (now' = now /\ last'.op = "create" /\ examples[last'.id] # NilPtr) =>
              (last'.err = ErrAlreadyExists /\ examples' = examples /\ heap' = heap)
       /\ (now' = now /\ last'.op \in {"update", "delete"}
           /\ examples[last'.id] = NilPtr) =>
              (last'.err = ErrNotFound /\ examples' = examples /\ heap' = heap)
       /\ (now' = now /\ last'.op \in {"create", "update", "delete"}
           /\ last'.err # NoError) =>
              (examples' = examples /\ heap' = heap)]_vars

\* a second object with a stored ID was refused while the first is stored
C15_Witness ==
    /\ last.op = "create"
    /\ last.err = ErrAlreadyExists
    /\ last.ptr = 2
    /\ examples[last.id] = 1

\* C16: GetExample(id) succeeds exactly when id was created with success and
\* not deleted with success since, and then returns the example that the
\* latest successful create or update stored under id; otherwise it returns
\* ErrNotFound.
C16_GetReturnsLatestStored ==
    /\ \A id \in IDs :
          GetExample(examples, id) =
              IF stored[id] # NilPtr
              THEN [example |-> stored[id], err |-> NoError]
              ELSE [example |-> NilPtr, err |-> ErrNotFound]
    /\ (last.op = "get") =>
          /\ (last.err = NoError) <=> (stored[last.id] # NilPtr)
          /\ (last.err = NoError) =>
                (last.ptr = stored[last.id] /\ heap[last.ptr].ID = last.id)
          /\ (last.err # NoError) => (last.err = ErrNotFound /\ last.ptr = NilPtr)

\* GetExample returned the object an update put in the place of another
C16_Witness ==
    /\ last.op = "get"
    /\ last.err = NoError
    /\ last.ptr = 2
    /\ Len(heap) = 2
    /\ heap[1].ID = heap[2].ID
    /\ heap[2].UpdatedAt > heap[2].CreatedAt

(***************************************************************************)
(* Specification of listing: a repository is filled, then listed           *)
(***************************************************************************)
\* examples allocated before the listing
MaxListed == 3

\* the limits and offsets callers pass
Limits == (0 - 1)..(MaxListed + 1)

Offsets == 0..(MaxListed + 1)

\* a caller allocates an example and hands it to CreateExample
CallerCreatesExample(id) ==
    /\ Len(heap) < MaxListed
    /\ LET h == Append(heap, NewExample(id, 3, 0, now))
           r == CreateExample(examples, h, Len(h))
       IN  /\ examples' = r.examples
           /\ heap' = r.heap
           /\ stored' = Recorded(r.err, id, Len(h))
           /\ last' = [op |-> "create", id |-> id, ptr |-> Len(h), err |-> r.err]
    /\ UNCHANGED <<metrics, auth, now, tok, authConfig, reqs>>

RepoListExamples(limit, offset) ==
    /\ \E r \in ListExamples(examples, limit, offset) :
          last' = [op |-> "list", limit |-> limit, offset |-> offset,
                   examples |-> r.examples, err |-> r.err]
    /\ UNCHANGED <<metrics, auth, now, tok, authConfig, reqs, heap, examples, stored>>

NextList ==
    \/ \E id \in IDs : CallerCreatesExample(id)
    \/ \E limit \in Limits, offset \in Offsets : RepoListExamples(limit, offset)

SpecList == InitRepo /\ [][NextList]_vars

Min(a, b) == IF a < b THEN a ELSE b

Max(a, b) == IF a > b THEN a ELSE b

\* C17: ListExamples(limit, offset) with offset >= 0 returns, without error,
\* a list of distinct stored examples; with n examples stored its length is
\* max(0, n - offset) when limit <= 0 and min(limit, max(0, n - offset)) when
\* limit > 0.
C17_ListLength ==
    (last.op = "list" /\ last.offset >= 0) =>
        LET n == Cardinality(Keys(examples))
            res == last.examples
        IN  /\ last.err = NoError
            /\ \A i, j \in 1..Len(res) : (i # j) => (res[i] # res[j])
            /\ \A i \in 1..Len(res) : \E id \in Keys(examples) : examples[id] = res[i]
            /\ Len(res) = IF last.limit <= 0 THEN Max(0, n - last.offset)
                          ELSE Min(last.limit, Max(0, n - last.offset))

\* three examples are stored; one was skipped and two of the rest returned
C17_Witness ==
    /\ last.op = "list"
    /\ Cardinality(Keys(examples)) = 3
    /\ last.limit = 2
    /\ last.offset = 1
    /\ Len(last.examples) = 2

(***************************************************************************)
(* service.Service over the repository                                     *)
(*                                                                         *)
(* A call's result is the error, the example returned (an address), and    *)
(* the map and heap the call leaves.                                       *)
(***************************************************************************)
\* the identifiers uuid.New hands out, in the order it hands them out
IDOrder == <<"a", "b", "c">>

\* uuid.New().String(): an identifier never handed out before
NewUUID(h) == IDOrder[Len(h) + 1]

ServiceGetExample(ex, h, id) ==
    LET r == GetExample(ex, id)
    IN  [err |-> r.err, example |-> r.example, examples |-> ex, heap |-> h]

ServiceListExamples(ex, h, limit, offset) ==
    {[err |-> r.err, list |-> r.examples, examples |-> ex, heap |-> h]
     : r \in ListExamples(ex, limit, offset)}

ServiceCreateExample(ex, h, req, t) ==
    LET h1 == Append(h, NewExample(NewUUID(h), req.Name, req.Description, t))
        r == CreateExample(ex, h1, Len(h1))
    IN  IF r.err # NoError
        THEN [err |-> r.err, example |-> NilPtr, examples |-> r.examples, heap |-> r.heap]
        ELSE [err |-> NoError, example |-> Len(h1), examples |-> r.examples,
              heap |-> r.heap]

\* variant: the example found is left as it was and stored again
ServiceUpdateExample_KeepsFields(ex, h, id, req, t) ==
    LET g == GetExample(ex, id)
    IN  IF g.err # NoError
        THEN [err |-> g.err, example |-> NilPtr, examples |-> ex, heap |-> h,
              updateCalled |-> FALSE]
        ELSE LET r == UpdateExample(ex, h, g.example, t)
             IN  [err |-> r.err, example |-> g.example,
                  examples |-> r.examples, heap |-> r.heap, updateCalled |-> TRUE]

\* updateCalled: whether the repository's UpdateExample was called
ServiceUpdateExample(ex, h, id, req, t) ==
    LET g == GetExample(ex, id)
    IN  IF g.err # NoError
        THEN [err |-> g.err, example |-> NilPtr, examples |-> ex, heap |-> h,
              updateCalled |-> FALSE]
        ELSE LET h1 == [h EXCEPT ![g.example].Name = req.Name,
                                 ![g.example].Description = req.Description,
                                 ![g.example].UpdatedAt = t]
                 r == UpdateExample(ex, h1, g.example, t)
             IN  IF r.err # NoError
                 THEN [err |-> r.err, example |-> NilPtr,
                       examples |-> r.examples, heap |-> r.heap,
                       updateCalled |-> TRUE]
                 ELSE [err |-> NoError, example |-> g.example,
                       examples |-> r.examples, heap |-> r.heap,
                       updateCalled |-> TRUE]

ServiceDeleteExample(ex, h, id) ==
    LET r == DeleteExample(ex, h, id)
    IN  [err |-> r.err, example |-> NilPtr, examples |-> r.examples, heap |-> r.heap]

\* the service a Handler is built with: the Service over the repository, or
\* a mock whose every call returns the error it was set up with
RealService == [mock |-> FALSE, err |-> NoError]

MockService(e) == [mock |-> TRUE, err |-> e]

\* what a call of the mock returns
Mocked(svc, ex, h) ==
    [err |-> svc.err, example |-> NilPtr, list |-> <<>>, examples |-> ex, heap |-> h,
     updateCalled |-> FALSE]

(***************************************************************************)
(* The handlers of /examples                                               *)
(***************************************************************************)
StatusOK == 200

StatusCreated == 201

StatusNoContent == 204

StatusBadRequest == 400

StatusNotFound == 404

StatusConflict == 409

StatusInternalServerError == 500

\* the default of the limit query parameter
DefaultLimit == 10

\* the lengths the validate tags of ExampleRequest name
MinNameLen == 3

MaxNameLen == 100

MaxDescriptionLen == 500

\* json.Marshal of a models.Example
MarshalExample(e) ==
    [id |-> e.ID, createdAt |-> e.CreatedAt, updatedAt |-> e.UpdatedAt,
     name |-> e.Name, description |-> e.Description, status |-> e.Status]

NoPayload == [none |-> TRUE]

\* what a handler has done when it returns
Responded(status, message, payload, called, svcErr, ex, h) ==
    [status |-> status, message |-> message, payload |-> payload,
     called |-> called, svcErr |-> svcErr, examples |-> ex, heap |-> h]

\* json.NewDecoder(r.Body).Decode(&req): a member the body lacks stays ""
Decode(body) ==
    IF ~body.json THEN [err |-> "invalid character", req |-> [Name |-> 0, Description |-> 0]]
    ELSE [err |-> NoError,
          req |-> [Name |-> IF body.hasName THEN body.name ELSE 0,
                   Description |-> body.description]]

GetExampleHandler(svc, ex, h, id) ==
    LET r == IF svc.mock THEN Mocked(svc, ex, h) ELSE ServiceGetExample(ex, h, id)
    IN  IF r.err # NoError
        THEN IF r.err = ErrNotFound
             THEN Responded(StatusNotFound, "Example not found", NoPayload,
                            TRUE, r.err, r.examples, r.heap)
             ELSE Responded(StatusInternalServerError, "Failed to get example",
                            NoPayload, TRUE, r.err, r.examples, r.heap)
        ELSE Responded(StatusOK, "", MarshalExample(r.heap[r.example]),
                       TRUE, r.err, r.examples, r.heap)

\* strconv.Atoi of a query parameter, with the handler's default
QueryInt(q, atLeast, default) ==
    IF q.present /\ q.int /\ q.value >= atLeast THEN q.value ELSE default

ListExamplesHandler(svc, ex, h, limitQ, offsetQ) ==
    LET limit == QueryInt(limitQ, 1, DefaultLimit)
        offset == QueryInt(offsetQ, 0, 0)
        rs == IF svc.mock THEN {Mocked(svc, ex, h)}
              ELSE ServiceListExamples(ex, h, limit, offset)
    IN  {IF r.err # NoError
         THEN Responded(StatusInternalServerError, "Failed to list examples",
                        NoPayload, TRUE, r.err, r.examples, r.heap)
         ELSE Responded(StatusOK, "",
                        [i \in 1..Len(r.list) |-> MarshalExample(r.heap[r.list[i]])],
                        TRUE, r.err, r.examples, r.heap)
         : r \in rs}

CreateExampleHandler(svc, ex, h, body, t) ==
    LET d == Decode(body)
    IN  IF d.err # NoError
        THEN Responded(StatusBadRequest, "Invalid request", NoPayload,
                       FALSE, NoError, ex, h)
        ELSE IF d.req.Name = 0
        THEN Responded(StatusBadRequest, "Name is required", NoPayload,
                       FALSE, NoError, ex, h)
        ELSE LET r == IF svc.mock THEN Mocked(svc, ex, h)
                      ELSE ServiceCreateExample(ex, h, d.req, t)
             IN  IF r.err # NoError
                 THEN IF r.err = ErrAlreadyExists
                      THEN Responded(StatusConflict, "Example already exists",
                                     NoPayload, TRUE, r.err, r.examples, r.heap)
                      ELSE Responded(StatusInternalServerError,
                                     "Failed to create example",
                                     NoPayload, TRUE, r.err, r.examples, r.heap)
                 ELSE Responded(StatusCreated, "", MarshalExample(r.heap[r.example]),
                                TRUE, r.err, r.examples, r.heap)

\* variant: every error of the service is answered alike
UpdateExampleHandler_All500(svc, ex, h, id, body, t) ==
    LET d == Decode(body)
    IN  IF d.err # NoError
        THEN Responded(StatusBadRequest, "Invalid request", NoPayload,
                       FALSE, NoError, ex, h)
        ELSE IF d.req.Name = 0
        THEN Responded(StatusBadRequest, "Name is required", NoPayload,
                       FALSE, NoError, ex, h)
        ELSE LET r == IF svc.mock THEN Mocked(svc, ex, h)
                      ELSE ServiceUpdateExample(ex, h, id, d.req, t)
             IN  IF r.err # NoError
                 THEN Responded(StatusInternalServerError,
                                "Failed to update example",
                                NoPayload, TRUE, r.err, r.examples, r.heap)
                 ELSE Responded(StatusOK, "", MarshalExample(r.heap[r.example]),
                                TRUE, r.err, r.examples, r.heap)

UpdateExampleHandler(svc, ex, h, id, body, t) ==
    LET d == Decode(body)
    IN  IF d.err # NoError
        THEN Responded(StatusBadRequest, "Invalid request", NoPayload,
                       FALSE, NoError, ex, h)
        ELSE IF d.req.Name = 0
        THEN Responded(StatusBadRequest, "Name is required", NoPayload,
                       FALSE, NoError, ex, h)
        ELSE LET r == IF svc.mock THEN Mocked(svc, ex, h)
                      ELSE ServiceUpdateExample(ex, h, id, d.req, t)
             IN  IF r.err # NoError
                 THEN IF r.err = ErrNotFound
                      THEN Responded(StatusNotFound, "Example not found",
                                     NoPayload, TRUE, r.err, r.examples, r.heap)
                      ELSE Responded(StatusInternalServerError,
                                     "Failed to update example",
                                     NoPayload, TRUE, r.err, r.examples, r.heap)
                 ELSE Responded(StatusOK, "", MarshalExample(r.heap[r.example]),
                                TRUE, r.err, r.examples, r.heap)

DeleteExampleHandler(svc, ex, h, id) ==
    LET r == IF svc.mock THEN Mocked(svc, ex, h) ELSE ServiceDeleteExample(ex, h, id)
    IN  IF r.err # NoError
        THEN IF r.err = ErrNotFound
             THEN Responded(StatusNotFound, "Example not found", NoPayload,
                            TRUE, r.err, r.examples, r.heap)
             ELSE Responded(StatusInternalServerError, "Failed to delete example",
                            NoPayload, TRUE, r.err, r.examples, r.heap)
        ELSE Responded(StatusNoContent, "", NoPayload, TRUE, r.err, r.examples, r.heap)

(***************************************************************************)
(* Specification of the /examples API: requests against one store          *)
(***************************************************************************)
\* request bodies: not JSON, or an object with or without a name; a name or
\* a description is given by its length
Bodies ==
    {[json |-> FALSE, hasName |-> FALSE, name |-> 0, description |-> 0],
     [json |-> TRUE, hasName |-> FALSE, name |-> 0, description |-> 0],
     [json |-> TRUE, hasName |-> TRUE, name |-> MinNameLen,
      description |-> MaxDescriptionLen + 1]}
    \cup {[json |-> TRUE, hasName |-> TRUE, name |-> n, description |-> 0]
          : n \in {0, MinNameLen - 1, MinNameLen, MaxNameLen + 1}}

NoBody == [json |-> FALSE, hasName |-> FALSE, name |-> 0, description |-> 0]

\* a query parameter: absent, not a number, or a number
QueryParam(present, int, value) == [present |-> present, int |-> int, value |-> value]

LimitQueries ==
    {QueryParam(FALSE, FALSE, 0), QueryParam(TRUE, FALSE, 0),
     QueryParam(TRUE, TRUE, 0), QueryParam(TRUE, TRUE, 1)}

OffsetQueries ==
    {QueryParam(FALSE, FALSE, 0), QueryParam(TRUE, TRUE, 0 - 1),
     QueryParam(TRUE, TRUE, 1)}

\* the errors a mocked service is set up with
MockErrors == {ErrNotFound, ErrAlreadyExists, ErrInternal}

\* the record of a request served: what was asked, what the handler did
ServedBy(handler, svc, id, body, o) ==
    [op |-> "http", handler |-> handler, mock |-> svc.mock, id |-> id,
     body |-> body, status |-> o.status, message |-> o.message,
     payload |-> o.payload, called |-> o.called, svcErr |-> o.svcErr,
     changed |-> (o.examples # examples \/ o.heap # heap)]

ServeGetExample(svc, id) ==
    /\ LET o == GetExampleHandler(svc, examples, heap, id)
       IN  /\ examples' = o.examples
           /\ heap' = o.heap
           /\ last' = ServedBy("get", svc, id, NoBody, o)
    /\ UNCHANGED <<metrics, auth, now, tok, authConfig, reqs, stored>>

ServeListExamples(svc, limitQ, offsetQ) ==
    /\ \E o \in ListExamplesHandler(svc, examples, heap, limitQ, offsetQ) :
          /\ examples' = o.examples
          /\ heap' = o.heap
          /\ last' = ServedBy("list", svc, "", NoBody, o)
    /\ UNCHANGED <<metrics, auth, now, tok, authConfig, reqs, stored>>

ServeCreateExample(svc, body) ==
    /\ svc.mock \/ Len(heap) < MaxObjects
    /\ LET o == CreateExampleHandler(svc, examples, heap, body, now)
       IN  /\ examples' = o.examples
           /\ heap' = o.heap
           /\ last' = ServedBy("create", svc, "", body, o)
    /\ UNCHANGED <<metrics, auth, now, tok, authConfig, reqs, stored>>

ServeUpdateExample(svc, id, body) ==
    /\ LET o == UpdateExampleHandler(svc, examples, heap, id, body, now)
       IN  /\ examples' = o.examples
           /\ heap' = o.heap
           /\ last' = ServedBy("update", svc, id, body, o)
    /\ UNCHANGED <<metrics, auth, now, tok, authConfig, reqs, stored>>

ServeDeleteExample(svc, id) ==
    /\ LET o == DeleteExampleHandler(svc, examples, heap, id)
       IN  /\ examples' = o.examples
           /\ heap' = o.heap
           /\ last' = ServedBy("delete", svc, id, NoBody, o)
    /\ UNCHANGED <<metrics, auth, now, tok, authConfig, reqs, stored>>

\* a body that meets every documented constraint
ValidBody == [json |-> TRUE, hasName |-> TRUE, name |-> MinNameLen, description |-> 0]

NextAPI ==
    \/ \E id \in IDs : ServeGetExample(RealService, id)
    \/ \E l \in LimitQueries, o \in OffsetQueries :
          ServeListExamples(RealService, l, o)
    \/ \E body \in Bodies : ServeCreateExample(RealService, body)
    \/ \E id \in IDs, body \in Bodies : ServeUpdateExample(RealService, id, body)
    \/ \E id \in IDs : ServeDeleteExample(RealService, id)
    \/ \E e \in MockErrors : ServeGetExample(MockService(e), "a")
    \/ \E e \in MockErrors :
          ServeListExamples(MockService(e), QueryParam(FALSE, FALSE, 0),
                            QueryParam(FALSE, FALSE, 0))
    \/ \E e \in MockErrors : ServeCreateExample(MockService(e), ValidBody)
    \/ \E e \in MockErrors : ServeUpdateExample(MockService(e), "a", ValidBody)
    \/ \E e \in MockErrors : ServeDeleteExample(MockService(e), "a")

SpecAPI == InitRepo /\ [][NextAPI]_vars

(***************************************************************************)
(* Properties of the /examples handlers (specification SpecAPI)            *)
(***************************************************************************)
\* C18: when the service was called, Get, Update and Delete answer 404 to
\* ErrNotFound, Create answers 409 to ErrAlreadyExists, every other error of
\* the service is answered 500, and success is 200 for get, list and update,
\* 201 for create and 204 for delete.
C18_StatusOfOutcome ==
    (last.op = "http" /\ last.called) =>
        last.status =
            IF last.svcErr = NoError
            THEN (IF last.handler = "create" THEN 201
                  ELSE IF last.handler = "delete" THEN 204 ELSE 200)
            ELSE IF last.svcErr = "resource not found"
                    /\ last.handler \in {"get", "update", "delete"} THEN 404
            ELSE IF last.svcErr = "resource already exists"
                    /\ last.handler = "create" THEN 409
            ELSE 500

\* the Service over the repository did not find the example to update
C18_Witness ==
    /\ last.op = "http"
    /\ last.handler = "update"
    /\ ~last.mock
    /\ last.called
    /\ last.svcErr = "resource not found"
    /\ last.status = 404

\* the body breaks a constraint documented for ExampleRequest
ViolatesExampleRequest(body) ==
    \/ ~body.hasName
    \/ body.name = 0
    \/ body.name < 3
    \/ body.name > 100
    \/ body.description > 500

\* C20: CreateExampleHandler and UpdateExampleHandler answer 400, without
\* calling the service and without changing the store, every body that
\* breaks a documented constraint of ExampleRequest: name missing or empty,
\* name shorter than 3 or longer than 100 characters, description longer
\* than 500 characters.
C20_InvalidBodiesRejected ==
    (last.op = "http" /\ last.handler \in {"create", "update"}
     /\ last.body.json /\ ViolatesExampleRequest(last.body)) =>
        (last.status = 400 /\ ~last.called /\ ~last.changed)

(***************************************************************************)
(* GET /me: JWTAuthMiddleware(nil) in front of UserProfileHandler          *)
(***************************************************************************)
\* a context key that is a plain string
StringKey(name) == [type |-> "string", name |-> name]

\* Service.GetUserProfile
GetUserProfile(userID) ==
    [err |-> NoError,
     profile |-> [ID |-> userID, Roles |-> <<"user">>, Scopes |-> <<"read", "write">>]]

\* the handler, run with the context the middleware passed on
UserProfileHandler(ctx) ==
    LET u == Lookup(ctx, StringKey("user_id"), "string", "")
    IN  IF ~u.ok
        THEN [status |-> StatusInternalServerError, message |-> "User ID not found",
              payload |-> NoPayload]
        ELSE LET r == GetUserProfile(u.val)
             IN  IF r.err # NoError
                 THEN [status |-> StatusInternalServerError,
                       message |-> "Failed to get user profile", payload |-> NoPayload]
                 ELSE [status |-> StatusOK, message |-> "", payload |-> r.profile]

\* one request to GET /me
ServeMe(authHeader) ==
    /\ \E o \in JWTAuthMiddleware(auth, <<>>, authHeader, now) :
          last' = IF o.nextCalled
                  THEN [op |-> "me", header |-> authHeader, at |-> now,
                        authorized |-> TRUE, claims |-> o.verify.claims,
                        status |-> UserProfileHandler(o.ctx).status,
                        message |-> UserProfileHandler(o.ctx).message,
                        payload |-> UserProfileHandler(o.ctx).payload]
                  ELSE [op |-> "me", header |-> authHeader, at |-> now,
                        authorized |-> FALSE, claims |-> NoClaims,
                        status |-> o.resp.status, message |-> o.resp.body,
                        payload |-> NoPayload]
    /\ UNCHANGED <<auth, now, tok>>
    /\ UNCHANGED restVars

NextMe ==
    \/ Tick
    \/ \E s \in ScopeLists : GenerateJWTToken("u1", GoSlice(<<"user">>), s)
    \/ \E h \in PresentedHeaders : ServeMe(h)

SpecMe == Init /\ [][NextMe]_vars

\* C19: a request to GET /me that carries a valid JWT passes the middleware,
\* the handler finds the user ID the middleware put into the context, and the
\* answer is 200 with the profile of the token's user; the 500 "User ID not
\* found" is never the answer to an authorised request.
C19_ProfileOfTokenUser ==
    (last.op = "me" /\ last.authorized) =>
        /\ last.status = 200
        /\ last.payload # NoPayload
        /\ last.payload.ID = last.claims.UserID
        /\ last.message # "User ID not found"

(***************************************************************************)
(* Specification of concurrent requests: several invocations of the        *)
(* JWTAuthMiddleware handlers of one Authenticator, interleaved between    *)
(* their stages.  reqs[i] holds the locals of invocation i.                *)
(***************************************************************************)
\* invocations in flight at once
NumRequests == 2

\* requests that enter the instrumented handler
MaxServed == 3

\* the locals of an invocation that has not started
NoRequest ==
    [pc |-> "idle", header |-> <<>>, required |-> <<>>, token |-> <<>>,
     at |-> 0, verify |-> InvalidResult, resp |-> NoResponse,
     nextCalled |-> FALSE, ctx |-> EmptyContext]

\* tokens of a second user, issued by the same Authenticator at its start
OtherUserTokens(a) ==
    {r.token : r \in {g \in GenerateResults(a, "u2", GoSlice(<<"user">>),
                                            GoSlice(<<"read">>), 0)
                      : g.err = NoError}}

\* the headers concurrent clients present
ConcurrentHeaders ==
    {<<>>}
    \cup {Bearer(t) : t \in OtherUserTokens(auth)}
    \cup (IF tok.state = "issued" THEN {Bearer(tok.token)} ELSE {})

\* the routes' required scopes: /me and /protected/jwt
RouteScopes == {<<>>, <<"read">>}

\* variant: the claims are kept in a field all invocations share, so an
\* invocation sees what the latest verification by any of them left there
ClaimsOf_Shared(rs, i) ==
    IF \E j \in DOMAIN rs : j # i /\ rs[j].pc \in {"verified", "done"}
                            /\ rs[j].verify.err = NoError
    THEN rs[CHOOSE j \in DOMAIN rs : j # i /\ rs[j].pc \in {"verified", "done"}
                                     /\ rs[j].verify.err = NoError].verify
    ELSE rs[i].verify

\* claims, err := a.VerifyJWTToken(token): locals of the invocation
ClaimsOf(rs, i) == rs[i].verify

\* the server hands a request to the handler
Arrive(i, requiredScopes, authHeader) ==
    /\ reqs[i].pc \in {"idle", "done"}
    /\ reqs' = [reqs EXCEPT ![i] = [NoRequest EXCEPT !.pc = "extract",
                                                     !.header = authHeader,
                                                     !.required = requiredScopes]]
    /\ UNCHANGED <<metrics, auth, now, tok, last, authConfig, heap, examples, stored>>

\* token, err := ExtractBearerToken(r)
StepExtract(i) ==
    /\ reqs[i].pc = "extract"
    /\ LET x == ExtractBearerToken(reqs[i].header)
       IN  reqs' = [reqs EXCEPT ![i] =
                       IF x.err # NoError
                       THEN [@ EXCEPT !.pc = "done", !.at = now,
                                      !.resp = HttpError("Unauthorized",
                                                         StatusUnauthorized)]
                       ELSE [@ EXCEPT !.pc = "verify", !.token = x.token]]
    /\ UNCHANGED <<metrics, auth, now, tok, last, authConfig, heap, examples, stored>>

\* claims, err := a.VerifyJWTToken(token)
StepVerify(i) ==
    /\ reqs[i].pc = "verify"
    /\ \E v \in VerifyResults(auth, reqs[i].token, now) :
          reqs' = [reqs EXCEPT ![i] = [@ EXCEPT !.pc = "verified", !.at = now,
                                                !.verify = v]]
    /\ UNCHANGED <<metrics, auth, now, tok, last, authConfig, heap, examples, stored>>

\* the rest of the handler: the answer to an error, the scope check, the
\* context handed to next
StepFinish(i) ==
    /\ reqs[i].pc = "verified"
    /\ LET o == AfterVerify(reqs[i].required, ClaimsOf(reqs, i))
       IN  reqs' = [reqs EXCEPT ![i] = [@ EXCEPT !.pc = "done", !.resp = o.resp,
                                                 !.nextCalled = o.nextCalled,
                                                 !.ctx = o.ctx]]
    /\ UNCHANGED <<metrics, auth, now, tok, last, authConfig, heap, examples, stored>>

InitConcurrent ==
    /\ authConfig = ServerAuthConfig
    /\ auth = NewAuthenticator(authConfig)
    /\ now = 0
    /\ tok = NoToken
    /\ last = Idle
    /\ reqs = [i \in 1..NumRequests |-> NoRequest]
    /\ heap = EmptyHeap /\ examples = NoExamples /\ stored = NoExamples
    /\ metrics = NoMetrics

NextConcurrent ==
    \/ Tick
    \/ GenerateJWTToken("u1", GoSlice(<<"user">>), GoSlice(<<"write">>))
    \/ \E i \in 1..NumRequests, r \in RouteScopes, h \in ConcurrentHeaders :
          Arrive(i, r, h)
    \/ \E i \in 1..NumRequests : StepExtract(i)
    \/ \E i \in 1..NumRequests : StepVerify(i)
    \/ \E i \in 1..NumRequests : StepFinish(i)

SpecConcurrent == InitConcurrent /\ [][NextConcurrent]_vars

\* C13: however concurrent requests through the middleware of one
\* Authenticator interleave, no request changes the Authenticator's signing
\* configuration, and each request's outcome (answer, hand-over to next, the
\* identity in its context) is the one its own header, its route's required
\* scopes and the clock give: the identity attached for one request is never
\* seen through another's context.
C13_RequestsAreIndependent ==
    /\ auth = NewAuthenticator(authConfig)
    /\ \A i \in 1..NumRequests :
          (reqs[i].pc = "done") =>
              /\ \E o \in JWTAuthMiddleware(auth, reqs[i].required,
                                            reqs[i].header, reqs[i].at) :
                    /\ o.resp = reqs[i].resp
                    /\ o.nextCalled = reqs[i].nextCalled
                    /\ o.ctx = reqs[i].ctx
              /\ reqs[i].nextCalled =>
                    /\ GetUserID(reqs[i].ctx).ok
                    /\ GetUserID(reqs[i].ctx).val
                          = BearerValue(reqs[i].header)[1].claims.user_id.val

\* two requests of different users were both handed on, each with its own
\* identity in its context
C13_Witness ==
    /\ reqs[1].pc = "done" /\ reqs[2].pc = "done"
    /\ reqs[1].nextCalled /\ reqs[2].nextCalled
    /\ GetUserID(reqs[1].ctx).val = "u1"
    /\ GetUserID(reqs[2].ctx).val = "u2"

(***************************************************************************)
(* Specification of the service: callers of one Service over one           *)
(* MemoryRepository, with the clock running                                *)
(***************************************************************************)
\* the requests callers pass: a name of three letters without description,
\* a name of four letters with a description of one letter
ServiceRequests == {[Name |-> 3, Description |-> 0], [Name |-> 4, Description |-> 1]}

SvcCreateExample(req) ==
    /\ Len(heap) < MaxObjects
    /\ LET r == ServiceCreateExample(examples, heap, req, now)
       IN  /\ examples' = r.examples
           /\ heap' = r.heap
           /\ last' = [op |-> "svc.create", id |-> NewUUID(heap), req |-> req,
                       err |-> r.err, example |-> r.example, updateCalled |-> FALSE]
    /\ UNCHANGED <<metrics, auth, now, tok, authConfig, reqs, stored>>

SvcUpdateExample(id, req) ==
    /\ LET r == ServiceUpdateExample(examples, heap, id, req, now)
       IN  /\ examples' = r.examples
           /\ heap' = r.heap
           /\ last' = [op |-> "svc.update", id |-> id, req |-> req,
                       err |-> r.err, example |-> r.example,
                       updateCalled |-> r.updateCalled]
    /\ UNCHANGED <<metrics, auth, now, tok, authConfig, reqs, stored>>

SvcGetExample(id) ==
    /\ LET r == ServiceGetExample(examples, heap, id)
       IN  last' = [op |-> "svc.get", id |-> id, req |-> [Name |-> 0, Description |-> 0],
                    err |-> r.err, example |-> r.example, updateCalled |-> FALSE]
    /\ UNCHANGED <<metrics, auth, now, tok, authConfig, reqs, heap, examples, stored>>

NextService ==
    \/ Tick
    \/ \E req \in ServiceRequests : SvcCreateExample(req)
    \/ \E id \in IDs, req \in ServiceRequests : SvcUpdateExample(id, req)
    \/ \E id \in IDs : SvcGetExample(id)

SpecService == InitRepo /\ [][NextService]_vars

\* C21: Service.UpdateExample on a stored id returns the example with its ID
\* and CreatedAt kept and its Name and Description those of the request, and
\* GetExample(id) then returns that example; on an id that is not stored it
\* returns ErrNotFound, does not call the repository's UpdateExample and
\* leaves every stored example as it was.
C21_UpdateKeepsIdentity ==
    [][(now' = now /\ last'.op = "svc.update") =>
          LET id == last'.id
              p == examples[id]
          IN  /\ (p # NilPtr) =>
                    /\ last'.err = NoError
                    /\ last'.example = p
                    /\ heap'[p].ID = id
                    /\ heap'[p].CreatedAt = heap[p].CreatedAt
                    /\ heap'[p].Name = last'.req.Name
                    /\ heap'[p].Description = last'.req.Description
                    /\ GetExample(examples', id) = [example |-> p, err |-> NoError]
                    /\ \A q \in 1..Len(heap) : (q # p) => (heap'[q] = heap[q])
              /\ (p = NilPtr) =>
                    /\ last'.err = "resource not found"
                    /\ ~last'.updateCalled
                    /\ examples' = examples
                    /\ heap' = heap]_vars

\* an example created earlier was renamed by an update at a later time
C21_Witness ==
    /\ last.op = "svc.update"
    /\ last.err = NoError
    /\ heap[last.example].Name = 4
    /\ heap[last.example].Description = 1
    /\ heap[last.example].UpdatedAt > heap[last.example].CreatedAt
    /\ Len(heap) = 2

C23_OneTerminalOutcome ==
    Served =>
        \/ /\ ~last.nextCalled
           /\ last.resp \in
                 {[status |-> StatusUnauthorized, body |-> "Unauthorized"],
                  [status |-> StatusUnauthorized, body |-> "Token expired"],
                  [status |-> StatusForbidden, body |-> "Forbidden: insufficient scope"]}
        \/ /\ last.nextCalled
           /\ last.resp = NoResponse

(***************************************************************************)
(* Verification is a function of token, Authenticator and clock            *)
(* (specification SpecConcurrent)                                          *)
(***************************************************************************)
\* request i has been through VerifyJWTToken
Verified(i) ==
    \/ reqs[i].pc = "verified"
    \/ reqs[i].pc = "done" /\ reqs[i].token # <<>>

FamilyPayload ==
    MarshalClaims([ExpiresAt |-> TicksPerSecond, IssuedAt |-> 0, NotBefore |-> 0,
                   Subject |-> "u1", UserID |-> "u1",
                   Roles |-> GoSlice(<<"user">>), Scopes |-> GoSlice(<<"read">>)])

\* tokens whose header names an HMAC, an RSA or another algorithm, signed
\* with the Authenticator's secret or key pair, or with someone else's
FamilyTokens ==
    {<<JWTAtom(alg, FamilyPayload, Sign("HMAC", k, alg, FamilyPayload))>>
        : alg \in {"HS256", "HS512"}, k \in {"s1", "s2"}}
    \cup {<<JWTAtom(alg, FamilyPayload, Sign("RSA", k, alg, FamilyPayload))>>
        : alg \in {"RS256", "RS384"}, k \in {"k1", "k2"}}
    \cup {<<JWTAtom("PS256", FamilyPayload, Sign("RSAPSS", "k1", "PS256", FamilyPayload))>>,
          <<JWTAtom("ES256", FamilyPayload, Sign("ECDSA", "k1", "ES256", FamilyPayload))>>,
          <<JWTAtom("none", FamilyPayload, Sign("none", "", "none", FamilyPayload))>>,
          \* an RSA-header token whose signature is an HMAC under the public key
          <<JWTAtom("RS256", FamilyPayload, Sign("HMAC", "k1", "RS256", FamilyPayload))>>,
          <<JWTAtom("HS256", FamilyPayload, Sign("HMAC", "k1", "HS256", FamilyPayload))>>}

InitKeys ==
    /\ authConfig \in AuthConfigs({TicksPerSecond})
    /\ auth = NewAuthenticator(authConfig)
    /\ now = 0
    /\ tok = NoToken
    /\ last = Idle
    /\ reqs = NoRequests
    /\ heap = EmptyHeap /\ examples = NoExamples /\ stored = NoExamples
    /\ metrics = NoMetrics

NextKeys ==
    \/ Tick
    \/ \E t \in FamilyTokens : VerifyJWTToken(t)

SpecKeys == InitKeys /\ [][NextKeys]_vars

\* C25: VerifyJWTToken takes the key from the algorithm family of the token's
\* header, whatever signing method is configured: a token with an HMAC header
\* is accepted exactly when it is in its validity period and its signature is
\* the HMAC under the shared secret, a token with an RSA header only when its
\* signature is the RSA signature matching the public key, and a token of any
\* other family is ErrInvalidToken.
C25_KeyFollowsTokenHeader ==
    (last.op = "verify") =>
        LET j == last.token[1]
            inPeriod == ClaimsErrors(j.claims, last.at) = {}
        IN  /\ (j.alg \in HMACMethods) =>
                  ((last.err = NoError)
                   <=> (inPeriod /\ j.sig = Sign("HMAC", auth.jwtSecret, j.alg, j.claims)))
            /\ (j.alg \in RSAMethods /\ last.err = NoError) =>
                  /\ auth.jwtPublicKey # NilKey
                  /\ inPeriod
                  /\ j.sig = Sign("RSA", auth.jwtPublicKey, j.alg, j.claims)
            /\ (j.alg \in RSAMethods /\ auth.jwtPublicKey # NilKey) =>
                  ((last.err = NoError)
                   <=> (inPeriod /\ j.sig = Sign("RSA", auth.jwtPublicKey, j.alg, j.claims)))
            /\ (j.alg \notin HMACMethods \cup RSAMethods) =>
                  (last.err = "invalid token")

\* an Authenticator configured for RS256 accepted an HS256 token signed with
\* the shared secret
C25_Witness ==
    /\ last.op = "verify"
    /\ auth.jwtSigningMethod = "RS256"
    /\ auth.jwtPublicKey # NilKey
    /\ last.token[1].alg = "HS256"
    /\ last.err = NoError

(***************************************************************************)
(* OAuth2AuthMiddleware                                                    *)
(***************************************************************************)
\* the context handed to next: the scopes and the user ID, no claims
OAuth2Context(scopes, userID) ==
    WithValue(WithValue(EmptyContext, ScopesContextKey, "[]string", scopes),
              UserIDContextKey, "string", userID)

\* variant: the simulated introspection grants the admin scope as well
OAuth2AuthMiddleware_Admin(requiredScopes, authHeader) ==
    LET x == ExtractBearerToken(authHeader)
        scopes == GoSlice(<<"read", "write", "admin">>)
    IN  IF x.err # NoError
        THEN [extractErr |-> x.err,
              resp |-> HttpError("Unauthorized", StatusUnauthorized),
              nextCalled |-> FALSE, ctx |-> EmptyContext]
        ELSE IF ~ScopeCheck(requiredScopes, scopes.elems)
        THEN [extractErr |-> NoError,
              resp |-> HttpError("Forbidden: insufficient scope", StatusForbidden),
              nextCalled |-> FALSE, ctx |-> EmptyContext]
        ELSE [extractErr |-> NoError, resp |-> NoResponse, nextCalled |-> TRUE,
              ctx |-> OAuth2Context(scopes, "oauth2-user-123")]

\* the outcome of one request through OAuth2AuthMiddleware(requiredScopes):
\* the token extracted is dropped, scopes and user ID are fixed
OAuth2AuthMiddleware(requiredScopes, authHeader) ==
    LET x == ExtractBearerToken(authHeader)
        scopes == GoSlice(<<"read", "write">>)
        userID == "oauth2-user-123"
    IN  IF x.err # NoError
        THEN [extractErr |-> x.err,
              resp |-> HttpError("Unauthorized", StatusUnauthorized),
              nextCalled |-> FALSE, ctx |-> EmptyContext]
        ELSE IF ~ScopeCheck(requiredScopes, scopes.elems)
        THEN [extractErr |-> NoError,
              resp |-> HttpError("Forbidden: insufficient scope", StatusForbidden),
              nextCalled |-> FALSE, ctx |-> EmptyContext]
        ELSE [extractErr |-> NoError, resp |-> NoResponse, nextCalled |-> TRUE,
              ctx |-> OAuth2Context(scopes, userID)]

\* the required scopes of routes behind OAuth2AuthMiddleware
OAuth2RequiredLists ==
    {<<>>, <<"read">>, <<"delete", "write">>, <<"delete">>, <<"admin">>,
     <<"admin", "delete">>}

\* one request is served by OAuth2AuthMiddleware(requiredScopes)
ServeOAuth2(requiredScopes, authHeader) ==
    /\ LET o == OAuth2AuthMiddleware(requiredScopes, authHeader)
       IN  last' = [op |-> "oauth2", header |-> authHeader,
                    required |-> requiredScopes, at |-> now,
                    extractErr |-> o.extractErr, resp |-> o.resp,
                    nextCalled |-> o.nextCalled, ctx |-> o.ctx]
    /\ UNCHANGED <<auth, now, tok>>
    /\ UNCHANGED restVars

\* the headers presented: any value after "Bearer ", a token or not, and
\* headers of other forms
OAuth2Headers ==
    {Bearer(t) : t \in OutsiderTokens}
    \cup MalformedHeaders(Str("abc"))
    \cup (IF tok.state = "issued" THEN {Bearer(tok.token)} ELSE {})

NextOAuth2 ==
    \/ GenerateJWTToken("u1", GoSlice(<<"user">>), GoSlice(<<"delete", "read">>))
    \/ \E r \in OAuth2RequiredLists, h \in OAuth2Headers : ServeOAuth2(r, h)

SpecOAuth2 == Init /\ [][NextOAuth2]_vars

IdleWorker == [pc |-> "idle", op |-> "none", id |-> "none"]

\* the examples callers hold, one per identifier in use
RaceHeap == [p \in 1..MaxObjects |-> NewExample(IDOrder[p], MinNameLen, 0, 0)]

RaceIDs == {IDOrder[p] : p \in 1..MaxObjects}

\* the example a create or an update passes for id
PtrOf(id) == CHOOSE p \in 1..MaxObjects : IDOrder[p] = id

\* the runtime has stopped the process
Fatal == [op |-> "fatal error: concurrent map access"]

\* a write to the map runs while another goroutine reads or writes it
MapRace(rs) ==
    \E i, j \in DOMAIN rs :
        /\ i # j
        /\ rs[i].pc = "writing"
        /\ rs[j].pc \in {"reading", "writing"}

\* a request arrives and its method starts with a read of the map:
\* r.examples[id] in Get, Create, Update and Delete, the range in List
BeginRead(i, op, id) ==
    /\ last # Fatal
    /\ reqs[i].pc = "idle"
    /\ (op = "list") => (id = IDOrder[1])
    /\ reqs' = [reqs EXCEPT ![i] = [pc |-> "reading", op |-> op, id |-> id]]
    /\ UNCHANGED <<metrics, auth, now, tok, last, authConfig, heap, examples, stored>>

\* the read returns: Get and List are done, Create goes on when the key is
\* absent, Update (which sets UpdatedAt) and Delete when it is present
EndRead(i) ==
    /\ last # Fatal
    /\ reqs[i].pc = "reading"
    /\ LET present == examples[reqs[i].id] # NilPtr
           goesOn  == \/ reqs[i].op = "create" /\ ~present
                      \/ reqs[i].op \in {"update", "delete"} /\ present
       IN  /\ reqs' = [reqs EXCEPT ![i] =
                          IF goesOn THEN [@ EXCEPT !.pc = "towrite"] ELSE IdleWorker]
           /\ heap' = IF goesOn /\ reqs[i].op = "update"
                      THEN [heap EXCEPT ![PtrOf(reqs[i].id)].UpdatedAt = now]
                      ELSE heap
    /\ UNCHANGED <<metrics, auth, now, tok, last, authConfig, examples, stored>>

\* r.examples[id] = example, or delete(r.examples, id), begins
BeginWrite(i) ==
    /\ last # Fatal
    /\ reqs[i].pc = "towrite"
    /\ reqs' = [reqs EXCEPT ![i].pc = "writing"]
    /\ UNCHANGED <<metrics, auth, now, tok, last, authConfig, heap, examples, stored>>

\* the write is done and the method returns
EndWrite(i) ==
    /\ last # Fatal
    /\ reqs[i].pc = "writing"
    /\ examples' = [examples EXCEPT ![reqs[i].id] =
                       IF reqs[i].op = "delete" THEN NilPtr ELSE PtrOf(reqs[i].id)]
    /\ reqs' = [reqs EXCEPT ![i] = IdleWorker]
    /\ UNCHANGED <<metrics, auth, now, tok, last, authConfig, heap, stored>>

\* the runtime's check finds the map written while it is accessed
RuntimeThrow ==
    /\ last # Fatal
    /\ MapRace(reqs)
    /\ last' = Fatal
    /\ UNCHANGED <<metrics, auth, now, tok, authConfig, reqs, heap, examples, stored>>

InitRace ==
    /\ authConfig = ServerAuthConfig
    /\ auth = NewAuthenticator(authConfig)
    /\ now = 0
    /\ tok = NoToken
    /\ last = Idle
    /\ reqs = [i \in 1..NumRequests |-> IdleWorker]
    /\ heap = RaceHeap /\ examples = NoExamples /\ stored = NoExamples
    /\ metrics = NoMetrics

NextRace ==
    \/ \E i \in 1..NumRequests, id \in RaceIDs,
          op \in {"get", "list", "create", "update", "delete"} : BeginRead(i, op, id)
    \/ \E i \in 1..NumRequests : EndRead(i)
    \/ \E i \in 1..NumRequests : BeginWrite(i)
    \/ \E i \in 1..NumRequests : EndWrite(i)
    \/ RuntimeThrow

SpecRace == InitRace /\ [][NextRace]_vars

\* C27: accesses to the examples map never overlap: in no reachable state is
\* a write to the map in progress while another goroutine reads or writes it.
C27_MapAccessesNeverOverlap == ~MapRace(reqs)

(***************************************************************************)
(* Specification of the middleware chain: requests on their own            *)
(* goroutines through Metrics.InstrumentHandler, then Recover, then a      *)
(* handler that returns or panics                                          *)
(***************************************************************************)
\* a goroutine that serves no request
NoServing ==
    [pc |-> "idle", key |-> <<"", "">>, panic |-> "none",
     resp |-> NoResponse, unwinding |-> FALSE]

\* what the handler downstream of Recover does: it writes 200 and returns,
\* or it panics with a value that is an error, or with one that is a string
HandlerOutcomes == {"none", "error", "string"}

\* Recover around a handler with that outcome: the response written and
\* whether a panic leaves the middleware.  The deferred function evaluates
\* err.(error) before it writes the 500; for a value that is no error the
\* assertion itself panics and nothing is written.
Recover(outcome) ==
    IF outcome = "none"
    THEN [resp |-> [status |-> StatusOK, body |-> "ok"], unwinding |-> FALSE]
    ELSE IF outcome = "error"
    THEN [resp |-> HttpError("Internal Server Error", StatusInternalServerError),
          unwinding |-> FALSE]
    ELSE [resp |-> NoResponse, unwinding |-> TRUE]

\* strconv.Itoa(rw.statusCode); the wrapper starts at http.StatusOK
StatusLabel(resp) ==
    IF resp.status = StatusInternalServerError THEN "500" ELSE "200"

\* variant: the decrement is an ordinary statement after next.ServeHTTP
InFlightOnExit_NotDeferred(g, unwinding) == IF unwinding THEN g ELSE g - 1

\* defer ...Dec(): runs when the function returns and when it unwinds
InFlightOnExit(g, unwinding) == g - 1

Entered == metrics.requestSizeCount[<<"GET", "/a">>]
            + metrics.requestSizeCount[<<"POST", "/b">>]

\* the request enters InstrumentHandler: the size is observed, the gauge
\* incremented, the decrement deferred
InstrumentEnter(i, k) ==
    /\ reqs[i].pc = "idle"
    /\ Entered < MaxServed
    /\ metrics' = [metrics EXCEPT !.requestSizeCount[k] = @ + 1,
                                  !.inFlight[k] = @ + 1]
    /\ reqs' = [reqs EXCEPT ![i] = [NoServing EXCEPT !.pc = "inside", !.key = k]]
    /\ UNCHANGED <<auth, now, tok, last, authConfig, heap, examples, stored>>

\* next.ServeHTTP(rw, r): Recover and the handler behind it
ServeNext(i, outcome) ==
    /\ reqs[i].pc = "inside"
    /\ LET r == Recover(outcome)
       IN  reqs' = [reqs EXCEPT ![i] =
                       [@ EXCEPT !.pc = IF r.unwinding THEN "exit" ELSE "returned",
                                 !.panic = outcome, !.resp = r.resp,
                                 !.unwinding = r.unwinding]]
    /\ UNCHANGED <<metrics, auth, now, tok, last, authConfig, heap, examples, stored>>

\* next has returned: m.httpRequestsTotal...Inc()
InstrumentCount(i) ==
    /\ reqs[i].pc = "returned"
    /\ metrics' = [metrics EXCEPT
                      !.requestsTotal[reqs[i].key][StatusLabel(reqs[i].resp)] = @ + 1]
    /\ reqs' = [reqs EXCEPT ![i].pc = "exit"]
    /\ UNCHANGED <<auth, now, tok, last, authConfig, heap, examples, stored>>

\* InstrumentHandler is left, by return or by the panic: the deferred call
InstrumentExit(i) ==
    /\ reqs[i].pc = "exit"
    /\ metrics' = [metrics EXCEPT !.inFlight[reqs[i].key] =
                      InFlightOnExit(@, reqs[i].unwinding)]
    /\ last' = [op |-> "chain", key |-> reqs[i].key, panic |-> reqs[i].panic,
                resp |-> reqs[i].resp, unwinding |-> reqs[i].unwinding]
    /\ reqs' = [reqs EXCEPT ![i] = NoServing]
    /\ UNCHANGED <<auth, now, tok, authConfig, heap, examples, stored>>

InitChain ==
    /\ authConfig = ServerAuthConfig
    /\ auth = NewAuthenticator(authConfig)
    /\ now = 0
    /\ tok = NoToken
    /\ last = Idle
    /\ reqs = [i \in 1..NumRequests |-> NoServing]
    /\ heap = EmptyHeap /\ examples = NoExamples /\ stored = NoExamples
    /\ metrics = NoMetrics

NextChain ==
    \/ \E i \in 1..NumRequests, k \in MetricKeys : InstrumentEnter(i, k)
    \/ \E i \in 1..NumRequests, o \in HandlerOutcomes : ServeNext(i, o)
    \/ \E i \in 1..NumRequests : InstrumentCount(i)
    \/ \E i \in 1..NumRequests : InstrumentExit(i)

SpecChain == InitChain /\ [][NextChain]_vars

\* C28: whatever value a handler panics with, an error or a string, Recover
\* answers 500 "Internal Server Error" and the panic does not leave it.
C28_EveryPanicIsRecovered ==
    (last.op = "chain" /\ last.panic # "none") =>
        /\ last.resp = [status |-> StatusInternalServerError,
                        body |-> "Internal Server Error"]
        /\ ~last.unwinding

\* the requests with labels k that are between the entry into
\* InstrumentHandler and the exit from it
InFlight(k) ==
    {i \in 1..NumRequests : reqs[i].pc \in {"inside", "returned", "exit"}
                            /\ reqs[i].key = k}

\* http_requests_total for k, all status labels together
RequestsTotal(m, k) == m.requestsTotal[k]["200"] + m.requestsTotal[k]["500"]

\* C29: for each (method, path) the in-flight gauge is the number of requests
\* inside InstrumentHandler, so it is incremented once on entry and
\* decremented once on exit, also when the wrapped handler panics, is never
\* negative and is zero again when no request is left; and the request
\* counter grows by one exactly when a request's wrapped handler has
\* returned without a panic, never otherwise.
C29_GaugeCountsRequestsInFlight ==
    /\ [](\A k \in MetricKeys :
             /\ metrics.inFlight[k] = Cardinality(InFlight(k))
             /\ metrics.inFlight[k] >= 0)
    /\ [][\A k \in MetricKeys :
             RequestsTotal(metrics', k) = RequestsTotal(metrics, k)
                + Cardinality({i \in 1..NumRequests :
                                  /\ reqs[i].key = k
                                  /\ reqs[i].pc = "returned"
                                  /\ reqs'[i].pc # "returned"})]_vars

\* a request has left by a panic, one has been counted, one is being served,
\* and the gauge shows just the one being served
C29_Witness ==
    /\ last.op = "chain"
    /\ last.unwinding
    /\ last.key = <<"GET", "/a">>
    /\ reqs[1].pc = "inside" /\ reqs[1].key = <<"GET", "/a">>
    /\ reqs[2].pc = "idle"
    /\ metrics.inFlight[<<"GET", "/a">>] = 1
    /\ RequestsTotal(metrics, <<"GET", "/a">>) = 1

(***************************************************************************)
(* Specification of pagination: a client reads the store page by page      *)
(***************************************************************************)
\* one call ListExamples(limit, offset) of a client paging through the
\* store: the first page, or the page after the one read last; each call
\* ranges over the map in an order of its own
RepoListPage(limit, offset) ==
    /\ \/ offset = 0
       \/ /\ last.op = "pages"
          /\ last.limit = limit
          /\ last.next = offset
          /\ offset < Cardinality(Keys(examples))
    /\ \E r \in ListExamples(examples, limit, offset) :
          last' = [op |-> "pages", limit |-> limit, next |-> offset + limit,
                   seen |-> IF offset = 0 THEN r.examples
                            ELSE last.seen \o r.examples]
    /\ UNCHANGED <<metrics, auth, now, tok, authConfig, reqs, heap, examples, stored>>

NextPages ==
    \/ \E id \in IDs : CallerCreatesExample(id)
    \/ \E limit \in 1..MaxListed, offset \in 0..MaxListed : RepoListPage(limit, offset)

SpecPages == InitRepo /\ [][NextPages]_vars

\* C30: when the pages ListExamples(k, 0), ListExamples(k, k), ... of an
\* unchanged store have been read up to its size, every stored example is on
\* them exactly once.
C30_PagesCoverTheStore ==
    (last.op = "pages" /\ last.next >= Cardinality(Keys(examples))) =>
        \A id \in Keys(examples) :
            Cardinality({i \in 1..Len(last.seen) : last.seen[i] = examples[id]}) = 1

====
